---- MODULE Spec2Model ----
(***************************************************************************)
(* A model of the tplcc preprocessor front end (src/tplcc/preprocessor.h). *)
(*                                                                         *)
(* Text is a sequence of one-character strings.  Offsets are 0-based byte  *)
(* offsets into the CodeBuffer, as in the C++ code; the byte at offset o   *)
(* is buffer[o + 1].  Only ASCII input is modelled, so the byte decoder    *)
(* returns the byte itself with length 1.                                  *)
(***************************************************************************)
EXTENDS Naturals, Integers, Sequences, FiniteSets, TLC

VARIABLES source, pp, lookaheadBuffer, emitted, pc, lexer, returned

vars == <<source, pp, lookaheadBuffer, emitted, pc, lexer, returned>>

----------------------------------------------------------------------------
(* Special code points. *)

\* the value returned by every scanner at end of input (EOF, -1)
EOFCH == "EOF"
\* the terminating NUL of the buffer's std::string, read at offset = size
NUL == "NUL"
\* the char stored when EOF (-1) is pushed into a std::string
XFF == "XFF"
\* the character ` (a string of this language cannot hold it)
BACKTICK == "BACKTICK"

Letters ==
  {"a","b","c","d","e","f","g","h","i","j","k","l","m","n","o","p","q","r",
   "s","t","u","v","w","x","y","z",
   "A","B","C","D","E","F","G","H","I","J","K","L","M","N","O","P","Q","R",
   "S","T","U","V","W","X","Y","Z"}

Digits == {"0","1","2","3","4","5","6","7","8","9"}

\* the characters std::isspace accepts in the "C" locale
Whitespace == {" ", "\f", "\n", "\r", "\t", "VT"}

isSpace(ch) == ch \in Whitespace

isDirectiveSpace(ch) == ch \in {" ", "\t"}

isNewlineCharacter(ch) == ch \in {"\r", "\n"}

isStartOfIdentifier(ch) == ch = "_" \/ ch \in Letters

\* std::isalnum in the "C" locale: letters and digits, not '_'
isalnum(ch) == ch \in Letters \/ ch \in Digits

\* std::string::push_back(int): EOF (-1) is stored as the byte 0xFF
toChar(ch) == IF ch = EOFCH THEN XFF ELSE ch

Last(s) == s[Len(s)]

Front(s) == SubSeq(s, 1, Len(s) - 1)

----------------------------------------------------------------------------
(* CodeBuffer: a byte string and the start offsets of its sections.        *)

section(w, id) == w.sectionOffsets[id + 1]

sectionEnd(w, id) ==
  IF id = Len(w.sectionOffsets) - 1
    THEN Len(w.buffer)
    ELSE w.sectionOffsets[id + 2]

sectionSize(w, id) == sectionEnd(w, id) - section(w, id)

sectionCount(w) == Len(w.sectionOffsets)

\* the bytes of a section
sectionText(w, id) == SubSeq(w.buffer, section(w, id) + 1, sectionEnd(w, id))

\* addSection appends the bytes and records the start; the new id is the
\* previous section count
addSection(w, content) ==
  [w EXCEPT !.buffer = @ \o content,
            !.sectionOffsets = Append(@, Len(w.buffer))]

\* decoding the byte at an offset; offset = size reads the string's NUL
decodeAt(w, o) == IF o < Len(w.buffer) THEN w.buffer[o + 1] ELSE NUL

----------------------------------------------------------------------------
(* PPScanner: the cursor (offset, section stack) lives in the record w.    *)

PPScanner_currentSectionID(w) ==
  IF w.stackOfSectionID = <<>> THEN 0 ELSE Last(w.stackOfSectionID)

PPScanner_currentSectionEnd(w) == sectionEnd(w, PPScanner_currentSectionID(w))

RECURSIVE PPScanner_skipBackslashReturn(_)
PPScanner_skipBackslashReturn(w) ==
  IF w.offset = PPScanner_currentSectionEnd(w) THEN w
  ELSE IF decodeAt(w, w.offset) # "\\"
          \/ w.offset + 1 = PPScanner_currentSectionEnd(w) THEN w
  ELSE IF decodeAt(w, w.offset + 1) # "\n" THEN w
  ELSE PPScanner_skipBackslashReturn([w EXCEPT !.offset = @ + 2])

\* exitSection that pops the stacks and leaves the offset where it is
PPScanner_exitSection_keepsOffset(w) ==
  [w EXCEPT !.stackOfSectionID = Front(@),
            !.stackOfStoredOffsets = Front(@)]

PPScanner_exitSection(w) ==
  [w EXCEPT !.stackOfSectionID = Front(@),
            !.offset = Last(w.stackOfStoredOffsets),
            !.stackOfStoredOffsets = Front(@)]

RECURSIVE PPScanner_exitSections(_)
PPScanner_exitSections(w) ==
  IF w.stackOfSectionID # <<>> /\ w.offset = PPScanner_currentSectionEnd(w)
    THEN PPScanner_exitSections(PPScanner_exitSection(w))
    ELSE w

PPScanner_reachedEndOfInput(w) ==
  w.stackOfSectionID = <<>> /\ w.offset = sectionEnd(w, 0)

\* returns [w, ch]
PPScanner_get(w) ==
  IF PPScanner_reachedEndOfInput(w) THEN [w |-> w, ch |-> EOFCH]
  ELSE LET ch == decodeAt(w, w.offset)
           w1 == [w EXCEPT !.offset = @ + 1]
           w2 == IF PPScanner_currentSectionID(w1) = 0
                   THEN PPScanner_skipBackslashReturn(w1) ELSE w1
       IN [w |-> PPScanner_exitSections(w2), ch |-> ch]

PPScanner_enterSection(w, id) ==
  IF sectionSize(w, id) = 0 THEN w
  ELSE [w EXCEPT !.stackOfSectionID = Append(@, id),
                 !.stackOfStoredOffsets = Append(@, w.offset),
                 !.offset = section(w, id)]

----------------------------------------------------------------------------
(* PPLookaheadScanner: la = [index, offset], reading the stacks of w.      *)

PPLookaheadScanner_currentSectionID(w, la) ==
  IF la.index = -1 THEN 0 ELSE w.stackOfSectionID[la.index + 1]

PPLookaheadScanner_currentSectionEnd(w, la) ==
  sectionEnd(w, PPLookaheadScanner_currentSectionID(w, la))

RECURSIVE PPLookaheadScanner_skipBackslashReturn(_, _)
PPLookaheadScanner_skipBackslashReturn(w, la) ==
  IF la.offset = PPLookaheadScanner_currentSectionEnd(w, la) THEN la
  ELSE IF decodeAt(w, la.offset) # "\\"
          \/ la.offset + 1 = PPLookaheadScanner_currentSectionEnd(w, la) THEN la
  ELSE IF decodeAt(w, la.offset + 1) # "\n" THEN la
  ELSE PPLookaheadScanner_skipBackslashReturn(w, [la EXCEPT !.offset = @ + 2])

\* the constructor: copy the cursor, then skip line splices (in any section)
PPLookaheadScanner_new(w) ==
  PPLookaheadScanner_skipBackslashReturn(w,
    [index |-> Len(w.stackOfSectionID) - 1, offset |-> w.offset])

\* as written in the source: the comparison is with 0, not with -1
PPLookaheadScanner_reachedEndOfInput(w, la) ==
  la.index = 0 /\ la.offset = sectionEnd(w, 0)

RECURSIVE PPLookaheadScanner_leaveSections(_, _)
PPLookaheadScanner_leaveSections(w, la) ==
  IF la.index >= 0 /\ la.offset = PPLookaheadScanner_currentSectionEnd(w, la)
    THEN PPLookaheadScanner_leaveSections(w,
           [index |-> la.index - 1,
            offset |-> w.stackOfStoredOffsets[la.index + 1]])
    ELSE la

\* returns [la, ch]
PPLookaheadScanner_get(w, la) ==
  IF PPLookaheadScanner_reachedEndOfInput(w, la) THEN [la |-> la, ch |-> EOFCH]
  ELSE LET ch == decodeAt(w, la.offset)
           la1 == [la EXCEPT !.offset = @ + 1]
           la2 == IF PPLookaheadScanner_currentSectionID(w, la1) = 0
                    THEN PPLookaheadScanner_skipBackslashReturn(w, la1) ELSE la1
       IN [la |-> PPLookaheadScanner_leaveSections(w, la2), ch |-> ch]

PPLookaheadScanner_peek(w, la) == PPLookaheadScanner_get(w, la).ch

PPScanner_peek(w) == PPLookaheadScanner_peek(w, PPLookaheadScanner_new(w))

----------------------------------------------------------------------------
(* PPDirectiveScanner and its lookahead: a raw newline ends the input.     *)

PPDirectiveScanner_reachedEndOfInput(w) ==
  PPScanner_reachedEndOfInput(w) \/ isNewlineCharacter(PPScanner_peek(w))

PPDirectiveScanner_get(w) ==
  IF PPDirectiveScanner_reachedEndOfInput(w) THEN [w |-> w, ch |-> EOFCH]
  ELSE PPScanner_get(w)

PPDirectiveScanner_peek(w) ==
  IF PPDirectiveScanner_reachedEndOfInput(w) THEN EOFCH ELSE PPScanner_peek(w)

PPDirectiveLookaheadScanner_reachedEndOfInput(w, la) ==
  PPLookaheadScanner_reachedEndOfInput(w, la)
  \/ isNewlineCharacter(PPLookaheadScanner_peek(w, la))

PPDirectiveLookaheadScanner_get(w, la) ==
  IF PPDirectiveLookaheadScanner_reachedEndOfInput(w, la)
    THEN [la |-> la, ch |-> EOFCH]
    ELSE PPLookaheadScanner_get(w, la)

----------------------------------------------------------------------------
(* RawBufferScanner: rbs = [body, cursor] over a macro body.               *)

RawBufferScanner_reachedEndOfInput(rbs) == rbs.cursor = Len(rbs.body)

RawBufferScanner_peek(rbs) ==
  IF rbs.cursor = Len(rbs.body) THEN EOFCH ELSE rbs.body[rbs.cursor + 1]

\* returns [rbs, ch]
RawBufferScanner_get(rbs) ==
  IF rbs.cursor = Len(rbs.body) THEN [rbs |-> rbs, ch |-> EOFCH]
  ELSE [rbs |-> [rbs EXCEPT !.cursor = @ + 1], ch |-> rbs.body[rbs.cursor + 1]]

----------------------------------------------------------------------------
(* With(v, F) is F applied to v: it names the result of a call, as the     *)
(* source's local variables do.                                            *)

With(v, F(_)) == F(v)

----------------------------------------------------------------------------
(* The scanner interface used by the templated parsing functions.  A       *)
(* context c = [w, sc] pairs the preprocessor record with the scanner the  *)
(* function was called with: sc.kind names the scanner class, and for a    *)
(* RawBufferScanner sc carries its body and cursor.                        *)

thePPScanner == [kind |-> "PPScanner", body |-> <<>>, cursor |-> 0]

thePPDirectiveScanner == [kind |-> "PPDirectiveScanner", body |-> <<>>, cursor |-> 0]

newRawBufferScanner(body) == [kind |-> "RawBufferScanner", body |-> body, cursor |-> 0]

Ctx(w, sc) == [w |-> w, sc |-> sc]

Sc_reachedEndOfInput(c) ==
  CASE c.sc.kind = "PPScanner" -> PPScanner_reachedEndOfInput(c.w)
    [] c.sc.kind = "PPDirectiveScanner" -> PPDirectiveScanner_reachedEndOfInput(c.w)
    [] OTHER -> RawBufferScanner_reachedEndOfInput(c.sc)

Sc_peek(c) ==
  CASE c.sc.kind = "PPScanner" -> PPScanner_peek(c.w)
    [] c.sc.kind = "PPDirectiveScanner" -> PPDirectiveScanner_peek(c.w)
    [] OTHER -> RawBufferScanner_peek(c.sc)

\* returns [w, sc, ch]
Sc_get(c) ==
  CASE c.sc.kind = "PPScanner" ->
         With(PPScanner_get(c.w),
              LAMBDA g : [w |-> g.w, sc |-> c.sc, ch |-> g.ch])
    [] c.sc.kind = "PPDirectiveScanner" ->
         With(PPDirectiveScanner_get(c.w),
              LAMBDA g : [w |-> g.w, sc |-> c.sc, ch |-> g.ch])
    [] OTHER ->
         With(RawBufferScanner_get(c.sc),
              LAMBDA g : [w |-> c.w, sc |-> g.rbs, ch |-> g.ch])

Sc_offset(c) ==
  IF c.sc.kind = "RawBufferScanner" THEN c.sc.cursor ELSE c.w.offset

\* lookaheadMatches with a two-character string: a fresh lookahead scanner
\* is read twice; the second read happens only when the first one matched
lookaheadMatches(c, str) ==
  CASE c.sc.kind = "PPScanner" ->
         With(PPLookaheadScanner_get(c.w, PPLookaheadScanner_new(c.w)),
              LAMBDA g1 : /\ g1.ch = str[1]
                          /\ PPLookaheadScanner_get(c.w, g1.la).ch = str[2])
    [] c.sc.kind = "PPDirectiveScanner" ->
         With(PPDirectiveLookaheadScanner_get(c.w, PPLookaheadScanner_new(c.w)),
              LAMBDA g1 : /\ g1.ch = str[1]
                          /\ PPDirectiveLookaheadScanner_get(c.w, g1.la).ch = str[2])
    [] OTHER ->
         With(RawBufferScanner_get(c.sc),
              LAMBDA g1 : /\ g1.ch = str[1]
                          /\ RawBufferScanner_get(g1.rbs).ch = str[2])

\* the context left by a call, without its result fields
Strip(r) == [w |-> r.w, sc |-> r.sc]

skipNewline(c) ==
  With(IF Sc_peek(c) = "\r" THEN Strip(Sc_get(c)) ELSE c,
       LAMBDA c1 : IF Sc_peek(c1) = "\n" THEN Strip(Sc_get(c1)) ELSE c1)

----------------------------------------------------------------------------
(* Diagnostics.                                                            *)

\* a diagnostic: its range, its message format and the values formatted in
Error(range, message, name, name2, a, b) ==
  [range |-> range, message |-> message, name |-> name, name2 |-> name2,
   a |-> a, b |-> b]

NoError == Error(<<0, 0>>, "", <<>>, <<>>, 0, 0)

reportsError(w, e) == [w EXCEPT !.listOfErrors = Append(@, e)]

MsgUnterminatedComment == "Unterminated comment."
MsgArity == "The macro \"{}\" requires {} argument(s), but got {}."
MsgUnterminatedArgs == "unterminated argument list invoking macro \"{}\""
MsgMacroName == "macro names must be identifiers"
MsgUnknownDirective == "Unknown preprocessing directive {}"
MsgParamName == "Expected parameter name before end of line"
MsgCommaOrParen == "Expected ',' or ')' here."
MsgMissingParen == "Expected ')' before end of line"
MsgDuplicated == "Duplicated parameter \"{}\" in the function-like macro \"{}\"."

----------------------------------------------------------------------------
(* skipSpacesAndComments, skipSpaces, parseIdentifier, readAll, skipAll.   *)

spaceFn(fn, ch) == IF fn = "isDirectiveSpace" THEN isDirectiveSpace(ch) ELSE isSpace(ch)

\* while (!reachedEndOfInput && !isNewlineCharacter(peek)) get
RECURSIVE skipToEndOfLine(_)
skipToEndOfLine(c) ==
  IF ~Sc_reachedEndOfInput(c) /\ ~isNewlineCharacter(Sc_peek(c))
    THEN skipToEndOfLine(Strip(Sc_get(c)))
    ELSE c

\* while (!reachedEndOfInput && !lookaheadMatches("*/")) get
RECURSIVE skipToEndOfComment(_)
skipToEndOfComment(c) ==
  IF ~Sc_reachedEndOfInput(c) /\ ~lookaheadMatches(c, <<"*", "/">>)
    THEN skipToEndOfComment(Strip(Sc_get(c)))
    ELSE c

\* returns [w, sc, error]; error is NoError unless a comment is unterminated
RECURSIVE skipSpacesAndComments(_, _)
skipSpacesAndComments(c, fn) ==
  IF Sc_reachedEndOfInput(c) THEN [w |-> c.w, sc |-> c.sc, error |-> NoError]
  ELSE With(Sc_peek(c), LAMBDA p :
    IF isNewlineCharacter(p) THEN
      skipSpacesAndComments(
        skipNewline(Ctx([c.w EXCEPT !.canParseDirectives = TRUE], c.sc)), fn)
    ELSE IF spaceFn(fn, p) THEN
      skipSpacesAndComments(Strip(Sc_get(c)), fn)
    ELSE IF lookaheadMatches(c, <<"/", "/">>) THEN
      skipSpacesAndComments(
        skipNewline(skipToEndOfLine(Strip(Sc_get(Strip(Sc_get(c)))))), fn)
    ELSE IF lookaheadMatches(c, <<"/", "*">>) THEN
      With(skipToEndOfComment(Strip(Sc_get(Strip(Sc_get(c))))), LAMBDA c1 :
        IF Sc_reachedEndOfInput(c1)
          THEN [w |-> c1.w, sc |-> c1.sc,
                error |-> Error(<<Sc_offset(c), Sc_offset(c) + 2>>,
                                MsgUnterminatedComment, <<>>, <<>>, 0, 0)]
          ELSE skipSpacesAndComments(Strip(Sc_get(Strip(Sc_get(c1)))), fn))
    ELSE [w |-> c.w, sc |-> c.sc, error |-> NoError])

RECURSIVE skipSpaces(_, _)
skipSpaces(c, fn) ==
  IF ~Sc_reachedEndOfInput(c) /\ spaceFn(fn, Sc_peek(c))
    THEN skipSpaces(Strip(Sc_get(c)), fn)
    ELSE c

\* the loop of parseIdentifier; offsets are those a CharOffsetRecorder keeps
RECURSIVE parseIdentifierRest(_, _, _)
parseIdentifierRest(c, result, offsets) ==
  IF ~Sc_reachedEndOfInput(c) /\ isalnum(Sc_peek(c))
    THEN With(Sc_get(c), LAMBDA g :
           parseIdentifierRest(Strip(g), Append(result, toChar(g.ch)),
                               Append(offsets, Sc_offset(c))))
    ELSE [w |-> c.w, sc |-> c.sc, identifier |-> result, offsets |-> offsets]

\* returns [w, sc, identifier, offsets]; the first character is taken
\* unconditionally
parseIdentifier(c) ==
  With(Sc_get(c), LAMBDA g :
    parseIdentifierRest(Strip(g), <<toChar(g.ch)>>, <<Sc_offset(c)>>))

\* returns [w, sc, content]
RECURSIVE readAllFrom(_, _)
readAllFrom(c, content) ==
  With(Sc_get(c), LAMBDA g :
    IF g.ch = EOFCH THEN [w |-> g.w, sc |-> g.sc, content |-> content]
    ELSE readAllFrom(Strip(g), Append(content, g.ch)))

readAll(c) == readAllFrom(c, <<>>)

skipAll(c) == Strip(readAll(c))

----------------------------------------------------------------------------
(* Macro table and expansion cache.                                        *)

OBJECT_LIKE_MACRO == "OBJECT_LIKE_MACRO"
FUNCTION_LIKE_MACRO == "FUNCTION_LIKE_MACRO"

MacroDefinition(name, parameters, body, type) ==
  [type |-> type, name |-> name, parameters |-> parameters, body |-> body]

\* std::set<MacroDefinition, CompareMacroDefinition>: ordered by name only
isDefined(w, name) == \E m \in w.setOfMacroDefinitions : m.name = name

findMacro(w, name) == CHOOSE m \in w.setOfMacroDefinitions : m.name = name

\* std::set::insert keeps the stored element when an equivalent one exists
insertMacro(w, def) ==
  IF isDefined(w, def.name) THEN w
  ELSE [w EXCEPT !.setOfMacroDefinitions = @ \cup {def}]

isCached(w, key) == \E e \in w.codeCache : e.key = key

cachedSection(w, key) == (CHOOSE e \in w.codeCache : e.key = key).id

\* std::map::insert keeps the stored value when the key exists
insertCache(w, key, id) ==
  IF isCached(w, key) THEN w
  ELSE [w EXCEPT !.codeCache = @ \cup {[key |-> key, id |-> id]}]

\* the index of a parameter (0-based), or -1 for std::nullopt
findIndexOfParameter(macroDef, parameterName) ==
  IF \E i \in 1..Len(macroDef.parameters) : macroDef.parameters[i] = parameterName
    THEN (CHOOSE i \in 1..Len(macroDef.parameters) :
            /\ macroDef.parameters[i] = parameterName
            /\ \A j \in 1..(i - 1) : macroDef.parameters[j] # parameterName) - 1
    ELSE -1

RECURSIVE joinArguments(_, _)
joinArguments(arguments, i) ==
  IF i > Len(arguments) THEN <<>>
  ELSE <<",">> \o arguments[i] \o joinArguments(arguments, i + 1)

createFunctionLikeMacroCacheKey(macroName, arguments) ==
  IF arguments = <<>> THEN macroName \o <<"(", ")">>
  ELSE macroName \o <<"(">> \o arguments[1] \o joinArguments(arguments, 2) \o <<")">>

----------------------------------------------------------------------------
(* Macro expansion: tryExpandingMacro, parseFunctionLikeMacroArgumentList, *)
(* parseFunctionLikeMacroArgument and expandFunctionLikeMacro call each    *)
(* other.  frames is the set of expandFunctionLikeMacro activations on the *)
(* call stack, each with the state it was entered in: an activation that   *)
(* is entered again with the same macro, arguments and state recurses      *)
(* forever (w.crash = "loop"); MaxNest bounds the nesting otherwise        *)
(* (w.crash = "overflow").                                                 *)

MaxNest == 6

NoContext == [has |-> FALSE, def |-> MacroDefinition(<<>>, <<>>, <<>>, OBJECT_LIKE_MACRO),
              args |-> <<>>]

Context(macroDef, arguments) == [has |-> TRUE, def |-> macroDef, args |-> arguments]

crashed(w) == w.crash # ""

setCrash(w, how) == IF crashed(w) THEN w ELSE [w EXCEPT !.crash = how]

\* while (isSpace(scanner.peek())) scanner.get();  when the scanner is at
\* its end and peek still yields a space, get() consumes nothing and the
\* loop never ends
RECURSIVE skipArgumentSpaces(_)
skipArgumentSpaces(c) ==
  IF ~isSpace(Sc_peek(c)) THEN c
  ELSE IF Sc_reachedEndOfInput(c) THEN Ctx(setCrash(c.w, "loop"), c.sc)
  ELSE skipArgumentSpaces(Strip(Sc_get(c)))

RECURSIVE tryExpandingMacro(_, _, _, _)
RECURSIVE parseFunctionLikeMacroArgumentList(_, _, _, _)
RECURSIVE parseArgumentListRest(_, _, _, _, _)
RECURSIVE parseFunctionLikeMacroArgument(_, _, _)
RECURSIVE parseArgumentLoop(_, _, _, _, _)
RECURSIVE expandFunctionLikeMacro(_, _, _, _)
RECURSIVE expandLoop(_, _, _, _, _)

\* the tail of tryExpandingMacro: cache lookup, expansion, addSection
\* returns [w, sc, res, sectionID, error]
finishExpansion(c, macroDef, arguments, key, frames) ==
  IF isCached(c.w, key)
    THEN [w |-> c.w, sc |-> c.sc, res |-> "Ok",
          sectionID |-> cachedSection(c.w, key), error |-> NoError]
    ELSE With(IF macroDef.type = FUNCTION_LIKE_MACRO
                THEN expandFunctionLikeMacro(c.w, macroDef, arguments, frames)
                ELSE [w |-> c.w,
                      text |-> IF macroDef.body = <<>> THEN <<" ">>
                               ELSE macroDef.body],
              LAMBDA e :
                [w |-> insertCache(addSection(e.w, e.text), macroDef.name,
                                   sectionCount(e.w)),
                 sc |-> c.sc, res |-> "Ok", sectionID |-> sectionCount(e.w),
                 error |-> NoError])

\* returns [w, sc, res, sectionID, error] with res in {"Ok", "Fail", "Error"}
tryExpandingMacro(macroName, c, context, frames) ==
  LET startOffset == Sc_offset(c)
      fail == [w |-> c.w, sc |-> c.sc, res |-> "Fail", sectionID |-> 0,
               error |-> NoError]
  IN
  IF ~isDefined(c.w, macroName) THEN fail
  ELSE With(findMacro(c.w, macroName), LAMBDA macroDef :
    IF macroDef.type = FUNCTION_LIKE_MACRO /\ Sc_peek(c) # "(" THEN fail
    ELSE IF macroDef.type = FUNCTION_LIKE_MACRO THEN
      With(parseFunctionLikeMacroArgumentList(c, macroDef, context, frames),
           LAMBDA r :
        With(IF Len(macroDef.parameters) = 1 /\ r.argumentList = <<>>
               THEN << <<>> >> ELSE r.argumentList,
             LAMBDA arguments :
          IF crashed(r.w) THEN [fail EXCEPT !.w = r.w, !.sc = r.sc]
          ELSE IF r.isError
            THEN [w |-> r.w, sc |-> r.sc, res |-> "Error", sectionID |-> 0,
                  error |-> r.error]
          ELSE IF Len(macroDef.parameters) # Len(arguments)
            THEN [w |-> r.w, sc |-> r.sc, res |-> "Error", sectionID |-> 0,
                  error |-> Error(<<startOffset, Sc_offset(r)>>, MsgArity,
                                  macroDef.name, <<>>,
                                  Len(macroDef.parameters), Len(arguments))]
          ELSE finishExpansion(Strip(r), macroDef, arguments,
                 createFunctionLikeMacroCacheKey(macroDef.name, arguments),
                 frames)))
    ELSE finishExpansion(c, macroDef, <<>>, macroDef.name, frames))

\* returns [w, sc, isError, error, argumentList]
parseFunctionLikeMacroArgumentList(c, macroDef, context, frames) ==
  With(Strip(Sc_get(c)), LAMBDA c1 :
    IF Sc_peek(c1) = ")"
      THEN With(Strip(Sc_get(c1)), LAMBDA c2 :
             [w |-> c2.w, sc |-> c2.sc, isError |-> FALSE,
              error |-> NoError, argumentList |-> <<>>])
      ELSE With(parseFunctionLikeMacroArgument(c1, context, frames), LAMBDA arg :
             parseArgumentListRest(Strip(arg), <<arg.output>>, macroDef,
                                   context, frames)))

\* while (scanner.peek() != ')') ...
parseArgumentListRest(c, argumentList, macroDef, context, frames) ==
  IF crashed(c.w)
    THEN [w |-> c.w, sc |-> c.sc, isError |-> FALSE, error |-> NoError,
          argumentList |-> argumentList]
  ELSE With(Sc_peek(c), LAMBDA p :
    IF p = ")"
      THEN With(Strip(Sc_get(c)), LAMBDA c1 :
             [w |-> c1.w, sc |-> c1.sc, isError |-> FALSE, error |-> NoError,
              argumentList |-> argumentList])
    ELSE IF p = ","
      THEN IF Sc_reachedEndOfInput(c)
             \* get() consumes nothing and the argument is empty: no progress
             THEN [w |-> setCrash(c.w, "loop"), sc |-> c.sc, isError |-> FALSE,
                   error |-> NoError, argumentList |-> argumentList]
             ELSE With(parseFunctionLikeMacroArgument(Strip(Sc_get(c)),
                                                      context, frames),
                       LAMBDA arg :
                    parseArgumentListRest(Strip(arg),
                      Append(argumentList, arg.output), macroDef, context,
                      frames))
    ELSE With(Strip(Sc_get(c)), LAMBDA c1 :
           [w |-> c1.w, sc |-> c1.sc, isError |-> TRUE,
            error |-> Error(<<Sc_offset(c), Sc_offset(c1)>>,
                            MsgUnterminatedArgs, macroDef.name, <<>>, 0, 0),
            argumentList |-> argumentList]))

\* returns [w, sc, output]
parseFunctionLikeMacroArgument(c, context, frames) ==
  parseArgumentLoop(skipArgumentSpaces(c), <<>>, 0, context, frames)

parseArgumentLoop(c, output, parenthesisLevel, context, frames) ==
  LET done == [w |-> c.w, sc |-> c.sc, output |-> output]
  IN
  IF crashed(c.w) \/ Sc_reachedEndOfInput(c) THEN done
  ELSE With(Sc_peek(c), LAMBDA p :
    IF parenthesisLevel = 0 /\ (p = "," \/ p = ")") THEN done
    ELSE IF p = "(" \/ p = ")" THEN
      With(Sc_get(c), LAMBDA g :
        parseArgumentLoop(Strip(g), Append(output, toChar(g.ch)),
          IF p = "(" THEN parenthesisLevel + 1 ELSE parenthesisLevel - 1,
          context, frames))
    ELSE IF isSpace(p) THEN
      \* the spaces are skipped and the character after them is appended
      With(skipArgumentSpaces(c), LAMBDA c1 :
        IF crashed(c1.w) THEN [done EXCEPT !.w = c1.w]
        ELSE With(Sc_get(c1), LAMBDA g :
               parseArgumentLoop(Strip(g), Append(output, toChar(g.ch)),
                                 parenthesisLevel, context, frames)))
    ELSE IF isStartOfIdentifier(p) THEN
      With(parseIdentifier(c), LAMBDA id :
        IF context.has /\ findIndexOfParameter(context.def, id.identifier) >= 0
          THEN parseArgumentLoop(Strip(id),
                 output \o context.args[
                   findIndexOfParameter(context.def, id.identifier) + 1],
                 parenthesisLevel, context, frames)
          ELSE With(tryExpandingMacro(id.identifier, Strip(id), context, frames),
                    LAMBDA t :
                 IF t.res = "Error"
                   THEN parseArgumentLoop(Ctx(reportsError(t.w, t.error), t.sc),
                          output, parenthesisLevel, context, frames)
                 ELSE IF t.res = "Ok"
                   THEN parseArgumentLoop(Strip(t),
                          output \o sectionText(t.w, t.sectionID),
                          parenthesisLevel, context, frames)
                 ELSE parseArgumentLoop(Strip(t), output \o id.identifier,
                                        parenthesisLevel, context, frames)))
    ELSE With(Sc_get(c), LAMBDA g :
           parseArgumentLoop(Strip(g), Append(output, toChar(g.ch)),
                             parenthesisLevel, context, frames)))

\* returns [w, text]
expandFunctionLikeMacro(w, macroDef, arguments, frames) ==
  LET frame == [def |-> macroDef, args |-> arguments, w |-> w]
  IN  IF frame \in frames THEN [w |-> setCrash(w, "loop"), text |-> <<>>]
      ELSE IF Cardinality(frames) >= MaxNest
        THEN [w |-> setCrash(w, "overflow"), text |-> <<>>]
      ELSE IF macroDef.body = <<>> THEN [w |-> w, text |-> <<" ">>]
      ELSE expandLoop(Ctx(w, newRawBufferScanner(macroDef.body)), <<>>,
                      macroDef, arguments, frames \cup {frame})

\* while (!rbs.reachedEndOfInput()) ...
expandLoop(c, output, macroDef, arguments, frames) ==
  IF crashed(c.w) \/ Sc_reachedEndOfInput(c) THEN [w |-> c.w, text |-> output]
  ELSE IF isStartOfIdentifier(Sc_peek(c)) THEN
    With(parseIdentifier(c), LAMBDA id :
      IF findIndexOfParameter(macroDef, id.identifier) >= 0
        THEN expandLoop(Strip(id),
               output \o arguments[
                 findIndexOfParameter(macroDef, id.identifier) + 1],
               macroDef, arguments, frames)
        ELSE With(tryExpandingMacro(id.identifier, Strip(id),
                                    Context(macroDef, arguments), frames),
                  LAMBDA t :
               IF t.res = "Ok"
                 THEN expandLoop(Strip(t),
                        output \o sectionText(t.w, t.sectionID),
                        macroDef, arguments, frames)
               ELSE IF t.res = "Fail"
                 THEN expandLoop(Strip(t), output \o id.identifier,
                                 macroDef, arguments, frames)
               ELSE expandLoop(Ctx(reportsError(t.w, t.error), t.sc), output,
                               macroDef, arguments, frames)))
  ELSE With(Sc_get(c), LAMBDA g :
         expandLoop(Strip(g), Append(output, toChar(g.ch)),
                    macroDef, arguments, frames))

----------------------------------------------------------------------------
(* Directives.                                                             *)

\* returns [w, sc, isError, error, parameters]
parametersResult(c, isError, error, parameters) ==
  [w |-> c.w, sc |-> c.sc, isError |-> isError, error |-> error,
   parameters |-> parameters]

\* the error for a character that is neither ',' nor ')': one get() between
\* the two offsets
unexpectedCharacter(c) ==
  With(Strip(Sc_get(c)), LAMBDA c1 :
    parametersResult(c1, TRUE,
      Error(<<Sc_offset(c), Sc_offset(c1)>>, MsgCommaOrParen, <<>>, <<>>, 0, 0),
      <<>>))

\* while (scanner.peek() != ')') ...
RECURSIVE parseParametersRest(_, _, _, _)
parseParametersRest(c, parameters, macroName, identStartOffset) ==
  With(Sc_peek(c), LAMBDA p :
    IF p = ")"
      THEN parametersResult(Strip(Sc_get(c)), FALSE, NoError, parameters)
    ELSE IF Sc_reachedEndOfInput(c)
      THEN parametersResult(c, TRUE,
             Error(<<Sc_offset(c), Sc_offset(c) + 1>>, MsgMissingParen,
                   <<>>, <<>>, 0, 0), <<>>)
    ELSE IF p # "," THEN unexpectedCharacter(c)
    ELSE With(Strip(skipSpacesAndComments(Strip(Sc_get(c)), "isSpace")),
              LAMBDA c1 :
      IF Sc_reachedEndOfInput(c1)
        THEN parametersResult(c1, TRUE,
               Error(<<Sc_offset(c1), Sc_offset(c1) + 1>>, MsgParamName,
                     <<>>, <<>>, 0, 0), <<>>)
      ELSE IF ~isStartOfIdentifier(Sc_peek(c1)) THEN unexpectedCharacter(c1)
      ELSE With(parseIdentifier(c1), LAMBDA id :
        IF \E i \in 1..Len(parameters) : parameters[i] = id.identifier
          THEN parametersResult(Strip(id), TRUE,
                 Error(<<identStartOffset, Sc_offset(id)>>, MsgDuplicated,
                       id.identifier, macroName, 0, 0), <<>>)
          ELSE parseParametersRest(Strip(id),
                 Append(parameters, id.identifier), macroName,
                 identStartOffset))))

parseFunctionLikeMacroParameters(macroName, c) ==
  With(Strip(skipSpacesAndComments(Strip(Sc_get(c)), "isSpace")), LAMBDA c1 :
    With(Sc_peek(c1), LAMBDA p :
      IF p = ")"
        THEN parametersResult(Strip(Sc_get(c1)), FALSE, NoError, <<>>)
      ELSE IF Sc_reachedEndOfInput(c1)
        THEN parametersResult(c1, TRUE,
               Error(<<Sc_offset(c1), Sc_offset(c1) + 1>>, MsgParamName,
                     <<>>, <<>>, 0, 0), <<>>)
      ELSE IF ~isStartOfIdentifier(p) THEN unexpectedCharacter(c1)
      ELSE With(parseIdentifier(c1), LAMBDA id :
             parseParametersRest(
               Strip(skipSpacesAndComments(Strip(id), "isSpace")),
               <<id.identifier>>, macroName, Sc_offset(c1)))))

\* what a directive may change besides the cursor and the diagnostics
tables(w) == <<w.setOfMacroDefinitions, w.codeCache, w.sectionOffsets, w.buffer>>

\* the record of one parseDirective call, kept for the properties
directiveEvent(before, after, directiveName, rejected) ==
  [after EXCEPT !.log = Append(@,
     [directive |-> directiveName, rejected |-> rejected,
      start |-> before.offset, end |-> after.offset,
      errors |-> Len(after.listOfErrors) - Len(before.listOfErrors),
      unchanged |-> tables(before) = tables(after)])]

\* the label fail: skipAll(ppds); skipNewline(scanner); reportsError(error)
directiveFail(c, error) ==
  reportsError(skipNewline(Ctx(skipAll(c).w, thePPScanner)).w, error)

directiveDefine == <<"d", "e", "f", "i", "n", "e">>

\* parseDefine with the definition registered before its parameter list is
\* validated
parseDefine_registersRejected(c) ==
  With(Strip(skipSpacesAndComments(c, "isDirectiveSpace")), LAMBDA c1 :
    IF ~isStartOfIdentifier(Sc_peek(c1))
      THEN With(Strip(Sc_get(c1)), LAMBDA bad :
             directiveFail(bad,
               Error(<<Sc_offset(c1), Sc_offset(bad)>>, MsgMacroName,
                     <<>>, <<>>, 0, 0)))
    ELSE With(parseIdentifier(c1), LAMBDA name :
      IF Sc_peek(name) = "("
        THEN With(parseFunctionLikeMacroParameters(name.identifier, Strip(name)),
                  LAMBDA params :
               IF params.isError
                 THEN insertMacro(directiveFail(Strip(params), params.error),
                        MacroDefinition(name.identifier, <<>>, <<>>,
                                        FUNCTION_LIKE_MACRO))
                 ELSE With(readAll(Strip(skipSpacesAndComments(Strip(params),
                                                                "isDirectiveSpace"))),
                           LAMBDA body :
                        skipNewline(Ctx(insertMacro(body.w,
                            MacroDefinition(name.identifier, params.parameters,
                                            body.content, FUNCTION_LIKE_MACRO)),
                          thePPScanner)).w))
        ELSE With(readAll(Strip(skipSpacesAndComments(Strip(name),
                                                       "isDirectiveSpace"))),
                  LAMBDA body :
               skipNewline(Ctx(insertMacro(body.w,
                   MacroDefinition(name.identifier, <<>>, body.content,
                                   OBJECT_LIKE_MACRO)),
                 thePPScanner)).w)))

\* the body of the branch directiveName == "define"; returns the new w
parseDefine(c) ==
  With(Strip(skipSpacesAndComments(c, "isDirectiveSpace")), LAMBDA c1 :
    IF ~isStartOfIdentifier(Sc_peek(c1))
      THEN With(Strip(Sc_get(c1)), LAMBDA bad :
             directiveFail(bad,
               Error(<<Sc_offset(c1), Sc_offset(bad)>>, MsgMacroName,
                     <<>>, <<>>, 0, 0)))
    ELSE With(parseIdentifier(c1), LAMBDA name :
      IF Sc_peek(name) = "("
        THEN With(parseFunctionLikeMacroParameters(name.identifier, Strip(name)),
                  LAMBDA params :
               IF params.isError
                 THEN directiveFail(Strip(params), params.error)
                 ELSE With(readAll(Strip(skipSpacesAndComments(Strip(params),
                                                                "isDirectiveSpace"))),
                           LAMBDA body :
                        skipNewline(Ctx(insertMacro(body.w,
                            MacroDefinition(name.identifier, params.parameters,
                                            body.content, FUNCTION_LIKE_MACRO)),
                          thePPScanner)).w))
        ELSE With(readAll(Strip(skipSpacesAndComments(Strip(name),
                                                       "isDirectiveSpace"))),
                  LAMBDA body :
               skipNewline(Ctx(insertMacro(body.w,
                   MacroDefinition(name.identifier, <<>>, body.content,
                                   OBJECT_LIKE_MACRO)),
                 thePPScanner)).w)))

parseDirective(w) ==
  With(skipSpaces(Strip(Sc_get(Ctx(w, thePPDirectiveScanner))),
                  "isDirectiveSpace"),
       LAMBDA c2 :
    With(parseIdentifier(c2), LAMBDA name :
      With(IF name.identifier = <<>>
             THEN skipNewline(Ctx(name.w, thePPScanner)).w
           ELSE IF name.identifier = directiveDefine
             THEN parseDefine(Strip(name))
           ELSE directiveFail(Strip(name),
                  \* offsetBeforeParsingDirectiveName,
                  \* offsetAfterParsingDirectiveName
                  Error(<<c2.w.offset, name.w.offset>>,
                        MsgUnknownDirective, name.identifier, <<>>, 0, 0)),
           LAMBDA after :
        directiveEvent(w, after, name.identifier,
                       Len(after.listOfErrors) > Len(w.listOfErrors)))))

RECURSIVE fastForwardToFirstOutputCharacter(_)
fastForwardToFirstOutputCharacter(w) ==
  With(skipSpacesAndComments(Ctx(w, thePPScanner), "isSpace"), LAMBDA s :
    IF PPScanner_peek(s.w) # "#" THEN s.w
    ELSE fastForwardToFirstOutputCharacter(parseDirective(s.w)))

----------------------------------------------------------------------------
(* PPImpl::get.                                                            *)

\* the depth of get() calling itself that the model follows
MaxGetDepth == 12

noIdentScanner == [active |-> FALSE, offsets |-> <<>>, count |-> 0]

\* one activation of get(): either a character is returned (again = FALSE)
\* or the activation ends with "return get()" (again = TRUE)
returnCharacter(w, ch, offset) ==
  [w |-> w, again |-> FALSE, ch |-> ch, offset |-> offset]

returnGet(w) == [w |-> w, again |-> TRUE, ch |-> EOFCH, offset |-> 0]

getFromIdentScanner(w) ==
  LET is == w.identScanner
      offset == is.offsets[is.count + 1]
      count == is.count + 1
  IN  returnCharacter(
        [w EXCEPT !.identScanner =
           IF count = Len(is.offsets) THEN noIdentScanner
           ELSE [is EXCEPT !.count = count]],
        decodeAt(w, offset), offset)

getIdentifier(w) ==
  With(parseIdentifier(Ctx(w, thePPScanner)), LAMBDA id :
    With(tryExpandingMacro(id.identifier, Strip(id), NoContext, {}), LAMBDA res :
      IF res.res = "Ok"
        THEN returnGet(PPScanner_enterSection(res.w, res.sectionID))
      ELSE IF res.res = "Fail"
        THEN returnGet([res.w EXCEPT !.identScanner =
               [active |-> TRUE, offsets |-> id.offsets, count |-> 0]])
      ELSE returnGet(reportsError(res.w, res.error))))

getBody(w) ==
  LET c == Ctx(w, thePPScanner)
      w1 == [w EXCEPT !.canParseDirectives = FALSE]
  IN
  IF w.identScanner.active THEN getFromIdentScanner(w)
  ELSE IF PPScanner_reachedEndOfInput(w) THEN returnCharacter(w, EOFCH, 0)
  ELSE With(PPScanner_peek(w), LAMBDA p :
    IF isSpace(p) \/ lookaheadMatches(c, <<"/", "*">>)
       \/ lookaheadMatches(c, <<"/", "/">>)
      THEN With(skipSpacesAndComments(c, "isSpace"), LAMBDA s :
             IF PPScanner_peek(s.w) = "#" /\ s.w.canParseDirectives
               THEN returnGet(parseDirective(s.w))
               ELSE returnCharacter(s.w, " ", w.offset))
    ELSE IF p = "#" /\ w.canParseDirectives
      THEN returnGet(parseDirective(w))
    ELSE IF isStartOfIdentifier(p) THEN getIdentifier(w1)
    ELSE With(PPScanner_get(w1), LAMBDA g :
           returnCharacter(g.w, g.ch, g.w.offset)))

\* get() with its calls of itself; seen holds the states in which the
\* activations of this call started, so a state that comes back is a call
\* that never returns
RECURSIVE PPImpl_get(_, _)
PPImpl_get(w, seen) ==
  With(getBody(w), LAMBDA r :
    IF crashed(r.w) \/ ~r.again THEN [w |-> r.w, ch |-> r.ch, offset |-> r.offset]
    ELSE IF r.w \in seen
      THEN [w |-> setCrash(r.w, "loop"), ch |-> EOFCH, offset |-> 0]
    ELSE IF Cardinality(seen) >= MaxGetDepth
      THEN [w |-> setCrash(r.w, "overflow"), ch |-> EOFCH, offset |-> 0]
    ELSE PPImpl_get(r.w, seen \cup {r.w}))

\* the constructor: empty tables, canParseDirectives as found in memory,
\* then fastForwardToFirstOutputCharacter
PPImpl_new(src, uninitialized) ==
  fastForwardToFirstOutputCharacter(
    [buffer |-> src, sectionOffsets |-> <<0>>,
     offset |-> 0, stackOfSectionID |-> <<>>, stackOfStoredOffsets |-> <<>>,
     codeCache |-> {}, setOfMacroDefinitions |-> {},
     identScanner |-> noIdentScanner,
     canParseDirectives |-> uninitialized,
     listOfErrors |-> <<>>,
     log |-> <<>>, crash |-> ""])

\* ---------------------------------------------------------------------------
\* Input programs: the sources of tests/test-preprocessor.cpp and of the
\* specification's examples
\* ---------------------------------------------------------------------------

\* #define R R\nR
P_SelfObject ==
  <<"#", "d", "e", "f", "i", "n", "e", " ", "R", " ", "R", "\n", "R">>

\* #define A 1\n#define R R\nA R
P_SelfObjectSecond ==
  <<"#", "d", "e", "f", "i", "n", "e", " ", "A", " ", "1", "\n", "#", "d",
    "e", "f", "i", "n", "e", " ", "R", " ", "R", "\n", "A", " ", "R">>

\* #define R() R()\nR()
P_SelfFunction ==
  <<"#", "d", "e", "f", "i", "n", "e", " ", "R", "(", ")", " ", "R", "(",
    ")", "\n", "R", "(", ")">>

\* #define R() V()\n#define V() R()\nR()
P_MutualFunction ==
  <<"#", "d", "e", "f", "i", "n", "e", " ", "R", "(", ")", " ", "V", "(",
    ")", "\n", "#", "d", "e", "f", "i", "n", "e", " ", "V", "(", ")", " ",
    "R", "(", ")", "\n", "R", "(", ")">>

\* #define FOO(x) BAR x\nFOO(FOO)(2)
P_FooFoo ==
  <<"#", "d", "e", "f", "i", "n", "e", " ", "F", "O", "O", "(", "x", ")",
    " ", "B", "A", "R", " ", "x", "\n", "F", "O", "O", "(", "F", "O", "O",
    ")", "(", "2", ")">>

\* #define ID(x) x\nID(ID)(3)
P_IdId ==
  <<"#", "d", "e", "f", "i", "n", "e", " ", "I", "D", "(", "x", ")", " ",
    "x", "\n", "I", "D", "(", "I", "D", ")", "(", "3", ")">>

\* #define FOO 1\nint a = FOO
P_Foo1 ==
  <<"#", "d", "e", "f", "i", "n", "e", " ", "F", "O", "O", " ", "1", "\n",
    "i", "n", "t", " ", "a", " ", "=", " ", "F", "O", "O">>

\* #define EMPTY\nEMPTY;
P_Empty ==
  <<"#", "d", "e", "f", "i", "n", "e", " ", "E", "M", "P", "T", "Y", "\n",
    "E", "M", "P", "T", "Y", ";">>

\* #define DIV(foo, bar) ((foo) / (bar))\nDIV(4, 3)
P_Div43 ==
  <<"#", "d", "e", "f", "i", "n", "e", " ", "D", "I", "V", "(", "f", "o",
    "o", ",", " ", "b", "a", "r", ")", " ", "(", "(", "f", "o", "o", ")",
    " ", "/", " ", "(", "b", "a", "r", ")", ")", "\n", "D", "I", "V", "(",
    "4", ",", " ", "3", ")">>

\* #define DIV(foo, bar) ((foo) / (bar))\nDIV(a) DIV(a,b,c)
P_DivArity ==
  <<"#", "d", "e", "f", "i", "n", "e", " ", "D", "I", "V", "(", "f", "o",
    "o", ",", " ", "b", "a", "r", ")", " ", "(", "(", "f", "o", "o", ")",
    " ", "/", " ", "(", "b", "a", "r", ")", ")", "\n", "D", "I", "V", "(",
    "a", ")", " ", "D", "I", "V", "(", "a", ",", "b", ",", "c", ")">>

\* #define F(a)\nF(adfadwf \ndaf df
P_Unterminated ==
  <<"#", "d", "e", "f", "i", "n", "e", " ", "F", "(", "a", ")", "\n", "F",
    "(", "a", "d", "f", "a", "d", "w", "f", " ", "\n", "d", "a", "f", " ",
    "d", "f">>

\* #define O1 abc\n#define O1 abc\n#define O2 abc\n#define O2 abcdef\n#define A(x) x\n#define A(x) x\n#define B(y) y\n#define B(y) y y\n#define C(z)\n#define C(y, z)\n
P_Redefinitions ==
  <<"#", "d", "e", "f", "i", "n", "e", " ", "O", "1", " ", "a", "b", "c",
    "\n", "#", "d", "e", "f", "i", "n", "e", " ", "O", "1", " ", "a", "b",
    "c", "\n", "#", "d", "e", "f", "i", "n", "e", " ", "O", "2", " ", "a",
    "b", "c", "\n", "#", "d", "e", "f", "i", "n", "e", " ", "O", "2", " ",
    "a", "b", "c", "d", "e", "f", "\n", "#", "d", "e", "f", "i", "n", "e",
    " ", "A", "(", "x", ")", " ", "x", "\n", "#", "d", "e", "f", "i", "n",
    "e", " ", "A", "(", "x", ")", " ", "x", "\n", "#", "d", "e", "f", "i",
    "n", "e", " ", "B", "(", "y", ")", " ", "y", "\n", "#", "d", "e", "f",
    "i", "n", "e", " ", "B", "(", "y", ")", " ", "y", " ", "y", "\n", "#",
    "d", "e", "f", "i", "n", "e", " ", "C", "(", "z", ")", "\n", "#", "d",
    "e", "f", "i", "n", "e", " ", "C", "(", "y", ",", " ", "z", ")", "\n">>

\* #define X a\n#define X b\nX
P_RedefineX ==
  <<"#", "d", "e", "f", "i", "n", "e", " ", "X", " ", "a", "\n", "#", "d",
    "e", "f", "i", "n", "e", " ", "X", " ", "b", "\n", "X">>

\* #define X a\nX\n#define X b\nX
P_RedefineCachedX ==
  <<"#", "d", "e", "f", "i", "n", "e", " ", "X", " ", "a", "\n", "X", "\n",
    "#", "d", "e", "f", "i", "n", "e", " ", "X", " ", "b", "\n", "X">>

\* #define F(a, a) a\nF(1, 2) A
P_DuplicatedParameter ==
  <<"#", "d", "e", "f", "i", "n", "e", " ", "F", "(", "a", ",", " ", "a",
    ")", " ", "a", "\n", "F", "(", "1", ",", " ", "2", ")", " ", "A">>

\* #define F(a\nF(1)
P_MissingParen ==
  <<"#", "d", "e", "f", "i", "n", "e", " ", "F", "(", "a", "\n", "F", "(",
    "1", ")">>

\* #define F(a,\nF(1)
P_MissingParameter ==
  <<"#", "d", "e", "f", "i", "n", "e", " ", "F", "(", "a", ",", "\n", "F",
    "(", "1", ")">>

\* #define F(a $) a\nF(1)
P_UnexpectedCharacter ==
  <<"#", "d", "e", "f", "i", "n", "e", " ", "F", "(", "a", " ", "$", ")",
    " ", "a", "\n", "F", "(", "1", ")">>

\* #define 1 F\nF
P_BadMacroName ==
  <<"#", "d", "e", "f", "i", "n", "e", " ", "1", " ", "F", "\n", "F">>

\* #define\nF
P_DefineNothing ==
  <<"#", "d", "e", "f", "i", "n", "e", "\n", "F">>

\* #define X 1\nX\n#define X(a, a) 2\nX
P_RejectedRedefinition ==
  <<"#", "d", "e", "f", "i", "n", "e", " ", "X", " ", "1", "\n", "X", "\n",
    "#", "d", "e", "f", "i", "n", "e", " ", "X", "(", "a", ",", " ", "a",
    ")", " ", "2", "\n", "X">>

\* int a = 10; #define FOO 10\nint b = FOO
P_NotAtLineStart ==
  <<"i", "n", "t", " ", "a", " ", "=", " ", "1", "0", ";", " ", "#", "d",
    "e", "f", "i", "n", "e", " ", "F", "O", "O", " ", "1", "0", "\n", "i",
    "n", "t", " ", "b", " ", "=", " ", "F", "O", "O">>

\* a // c\n#define X 1\nX
P_LineCommentThenDirective ==
  <<"a", " ", "/", "/", " ", "c", "\n", "#", "d", "e", "f", "i", "n", "e",
    " ", "X", " ", "1", "\n", "X">>

\* FOO  \r\n   \t  BAR
P_Spaces ==
  <<"F", "O", "O", " ", " ", "\r", "\n", " ", " ", " ", "\t", " ", " ",
    "B", "A", "R">>

\* /*     #if */        #define/* FOO */    FOO/* 3 */3\nFO   /**/O/* */   FOO
P_Comments ==
  <<"/", "*", " ", " ", " ", " ", " ", "#", "i", "f", " ", "*", "/", " ",
    " ", " ", " ", " ", " ", " ", " ", "#", "d", "e", "f", "i", "n", "e",
    "/", "*", " ", "F", "O", "O", " ", "*", "/", " ", " ", " ", " ", "F",
    "O", "O", "/", "*", " ", "3", " ", "*", "/", "3", "\n", "F", "O", " ",
    " ", " ", "/", "*", "*", "/", "O", "/", "*", " ", "*", "/", " ", " ",
    " ", "F", "O", "O">>

\* // line comment\n// another line comment\n// yet another line comment
P_LineComments ==
  <<"/", "/", " ", "l", "i", "n", "e", " ", "c", "o", "m", "m", "e", "n",
    "t", "\n", "/", "/", " ", "a", "n", "o", "t", "h", "e", "r", " ", "l",
    "i", "n", "e", " ", "c", "o", "m", "m", "e", "n", "t", "\n", "/", "/",
    " ", "y", "e", "t", " ", "a", "n", "o", "t", "h", "e", "r", " ", "l",
    "i", "n", "e", " ", "c", "o", "m", "m", "e", "n", "t">>

\* #define ID(x) x\nID(1 2)
P_ArgumentSpaces ==
  <<"#", "d", "e", "f", "i", "n", "e", " ", "I", "D", "(", "x", ")", " ",
    "x", "\n", "I", "D", "(", "1", " ", "2", ")">>

\* #define EMPTY\na EMPTY b
P_EmptyBetween ==
  <<"#", "d", "e", "f", "i", "n", "e", " ", "E", "M", "P", "T", "Y", "\n",
    "a", " ", "E", "M", "P", "T", "Y", " ", "b">>

\* #define ID(x) x\n#define DIV(foo, bar) ((foo) / (bar))\nID(DIV)(3, 4)
P_IdDiv34 ==
  <<"#", "d", "e", "f", "i", "n", "e", " ", "I", "D", "(", "x", ")", " ",
    "x", "\n", "#", "d", "e", "f", "i", "n", "e", " ", "D", "I", "V", "(",
    "f", "o", "o", ",", " ", "b", "a", "r", ")", " ", "(", "(", "f", "o",
    "o", ")", " ", "/", " ", "(", "b", "a", "r", ")", ")", "\n", "I", "D",
    "(", "D", "I", "V", ")", "(", "3", ",", " ", "4", ")">>

\* #define DIV(foo, bar) ((foo) / (bar))\n#define X(a) a\n#define FOO X\nFOO(3)
P_FooX3 ==
  <<"#", "d", "e", "f", "i", "n", "e", " ", "D", "I", "V", "(", "f", "o",
    "o", ",", " ", "b", "a", "r", ")", " ", "(", "(", "f", "o", "o", ")",
    " ", "/", " ", "(", "b", "a", "r", ")", ")", "\n", "#", "d", "e", "f",
    "i", "n", "e", " ", "X", "(", "a", ")", " ", "a", "\n", "#", "d", "e",
    "f", "i", "n", "e", " ", "F", "O", "O", " ", "X", "\n", "F", "O", "O",
    "(", "3", ")">>

\* #define X(a) a\n#define FOO X\nFOO(3);
P_FooX3Semi ==
  <<"#", "d", "e", "f", "i", "n", "e", " ", "X", "(", "a", ")", " ", "a",
    "\n", "#", "d", "e", "f", "i", "n", "e", " ", "F", "O", "O", " ", "X",
    "\n", "F", "O", "O", "(", "3", ")", ";">>

\* #define X(a) a\n#define FOO X\nX(1) FOO(3);
P_X1FooX3Semi ==
  <<"#", "d", "e", "f", "i", "n", "e", " ", "X", "(", "a", ")", " ", "a",
    "\n", "#", "d", "e", "f", "i", "n", "e", " ", "F", "O", "O", " ", "X",
    "\n", "X", "(", "1", ")", " ", "F", "O", "O", "(", "3", ")", ";">>

\* #define ID(x) x\nID((3,4))
P_IdNested ==
  <<"#", "d", "e", "f", "i", "n", "e", " ", "I", "D", "(", "x", ")", " ",
    "x", "\n", "I", "D", "(", "(", "3", ",", "4", ")", ")">>

\* #define FOO(a, b, c) (a, b, c)\r\nFOO(((a), (b)), (), ())
P_NestedArguments ==
  <<"#", "d", "e", "f", "i", "n", "e", " ", "F", "O", "O", "(", "a", ",",
    " ", "b", ",", " ", "c", ")", " ", "(", "a", ",", " ", "b", ",", " ",
    "c", ")", "\r", "\n", "F", "O", "O", "(", "(", "(", "a", ")", ",", " ",
    "(", "b", ")", ")", ",", " ", "(", ")", ",", " ", "(", ")", ")">>

\* #define T(a,b,c) (a,b,c)\nT(,,) T(a,,) T(,a,) T(,,a) T(a,a,) T(a,,a) T(,a,a)
P_EmptyArguments ==
  <<"#", "d", "e", "f", "i", "n", "e", " ", "T", "(", "a", ",", "b", ",",
    "c", ")", " ", "(", "a", ",", "b", ",", "c", ")", "\n", "T", "(", ",",
    ",", ")", " ", "T", "(", "a", ",", ",", ")", " ", "T", "(", ",", "a",
    ",", ")", " ", "T", "(", ",", ",", "a", ")", " ", "T", "(", "a", ",",
    "a", ",", ")", " ", "T", "(", "a", ",", ",", "a", ")", " ", "T", "(",
    ",", "a", ",", "a", ")">>

\* #define ID(x) x\nID()
P_IdEmpty ==
  <<"#", "d", "e", "f", "i", "n", "e", " ", "I", "D", "(", "x", ")", " ",
    "x", "\n", "I", "D", "(", ")">>

\* \\\n#define FOO a =\\\n            20 \\\n\n#define BAR int\nBA\\\n\\\n\\\nR F\\\nOO
P_BackslashReturn ==
  <<"\\", "\n", "#", "d", "e", "f", "i", "n", "e", " ", "F", "O", "O", " ",
    "a", " ", "=", "\\", "\n", " ", " ", " ", " ", " ", " ", " ", " ", " ",
    " ", " ", " ", "2", "0", " ", "\\", "\n", "\n", "#", "d", "e", "f", "i",
    "n", "e", " ", "B", "A", "R", " ", "i", "n", "t", "\n", "B", "A", "\\",
    "\n", "\\", "\n", "\\", "\n", "R", " ", "F", "\\", "\n", "O", "O">>

\* \\\nab
P_SpliceAtStart ==
  <<"\\", "\n", "a", "b">>

\* a\\\r\nb
P_SpliceCRLF ==
  <<"a", "\\", "\r", "\n", "b">>

\* #def\\\nine X 1\\\n2\nX;
P_SpliceInDefine ==
  <<"#", "d", "e", "f", "\\", "\n", "i", "n", "e", " ", "X", " ", "1", "\\",
    "\n", "2", "\n", "X", ";">>

\* "#define FOO 1"
P_DirectiveInString ==
  <<"\"", "#", "d", "e", "f", "i", "n", "e", " ", "F", "O", "O", " ", "1",
    "\"">>

\* "a//b"
P_CommentInString ==
  <<"\"", "a", "/", "/", "b", "\"">>

\* int a; /* never closed\nint b;
P_UnterminatedComment ==
  <<"i", "n", "t", " ", "a", ";", " ", "/", "*", " ", "n", "e", "v", "e",
    "r", " ", "c", "l", "o", "s", "e", "d", "\n", "i", "n", "t", " ", "b",
    ";">>

\* #       \nint a = 10;
P_EmptyDirective ==
  <<"#", " ", " ", " ", " ", " ", " ", " ", "\n", "i", "n", "t", " ", "a",
    " ", "=", " ", "1", "0", ";">>

\* #define F(
P_MissingParamAtEnd ==
  <<"#", "d", "e", "f", "i", "n", "e", " ", "F", "(">>

\* #define F(a
P_MissingParenAtEnd ==
  <<"#", "d", "e", "f", "i", "n", "e", " ", "F", "(", "a">>

\* #define F(a) a\nF(1
P_UnterminatedArgsAtEnd ==
  <<"#", "d", "e", "f", "i", "n", "e", " ", "F", "(", "a", ")", " ", "a",
    "\n", "F", "(", "1">>

\* #define X 12\nX+X
P_OffsetsOfExpansion ==
  <<"#", "d", "e", "f", "i", "n", "e", " ", "X", " ", "1", "2", "\n", "X",
    "+", "X">>

\* #define F(a) a\nF(1)+F(1)+F(2)
P_RepeatedInvocation ==
  <<"#", "d", "e", "f", "i", "n", "e", " ", "F", "(", "a", ")", " ", "a",
    "\n", "F", "(", "1", ")", "+", "F", "(", "1", ")", "+", "F", "(", "2",
    ")">>

\* a\n#define X 1
P_DirectiveAtEnd ==
  <<"a", "\n", "#", "d", "e", "f", "i", "n", "e", " ", "X", " ", "1">>

\* #define ID(x) x\nID()ID(1)
P_EmptyExpansionFirst ==
  <<"#", "d", "e", "f", "i", "n", "e", " ", "I", "D", "(", "x", ")", " ",
    "x", "\n", "I", "D", "(", ")", "I", "D", "(", "1", ")">>

\* #define ID(x) x\nID (3)
P_ProbeSpace ==
  <<"#", "d", "e", "f", "i", "n", "e", " ", "I", "D", "(", "x", ")", " ",
    "x", "\n", "I", "D", " ", "(", "3", ")">>

\* #define ID(x) x\nID /* c */ (3)
P_ProbeComment ==
  <<"#", "d", "e", "f", "i", "n", "e", " ", "I", "D", "(", "x", ")", " ",
    "x", "\n", "I", "D", " ", "/", "*", " ", "c", " ", "*", "/", " ", "(",
    "3", ")">>

\* #define LP (\n#define RP )\n#define U(a) a\nU LP a RP
P_ULPaRP ==
  <<"#", "d", "e", "f", "i", "n", "e", " ", "L", "P", " ", "(", "\n", "#",
    "d", "e", "f", "i", "n", "e", " ", "R", "P", " ", ")", "\n", "#", "d",
    "e", "f", "i", "n", "e", " ", "U", "(", "a", ")", " ", "a", "\n", "U",
    " ", "L", "P", " ", "a", " ", "R", "P">>

\* #define DIV(foo, bar) ((foo) / (bar))\nDIV( 4 , 3 )
P_DivSpaced ==
  <<"#", "d", "e", "f", "i", "n", "e", " ", "D", "I", "V", "(", "f", "o",
    "o", ",", " ", "b", "a", "r", ")", " ", "(", "(", "f", "o", "o", ")",
    " ", "/", " ", "(", "b", "a", "r", ")", ")", "\n", "D", "I", "V", "(",
    " ", "4", " ", ",", " ", "3", " ", ")">>

\* #define DIV(foo, bar) ((foo) / (bar))\nDIV(4,3)
P_DivPlain ==
  <<"#", "d", "e", "f", "i", "n", "e", " ", "D", "I", "V", "(", "f", "o",
    "o", ",", " ", "b", "a", "r", ")", " ", "(", "(", "f", "o", "o", ")",
    " ", "/", " ", "(", "b", "a", "r", ")", ")", "\n", "D", "I", "V", "(",
    "4", ",", "3", ")">>

\* #define DIV(foo, bar) ((foo) / (bar))\nDIV(1 + 2+ !foo.bar, 3)
P_DivTokens ==
  <<"#", "d", "e", "f", "i", "n", "e", " ", "D", "I", "V", "(", "f", "o",
    "o", ",", " ", "b", "a", "r", ")", " ", "(", "(", "f", "o", "o", ")",
    " ", "/", " ", "(", "b", "a", "r", ")", ")", "\n", "D", "I", "V", "(",
    "1", " ", "+", " ", "2", "+", " ", "!", "f", "o", "o", ".", "b", "a",
    "r", ",", " ", "3", ")">>

\* #define F( a , b , c ) [a|b|c]\nF(1,2,3)
P_ParametersSpaced ==
  <<"#", "d", "e", "f", "i", "n", "e", " ", "F", "(", " ", "a", " ", ",",
    " ", "b", " ", ",", " ", "c", " ", ")", " ", "[", "a", "|", "b", "|",
    "c", "]", "\n", "F", "(", "1", ",", "2", ",", "3", ")">>

\* #define F(a,b,c) [a|b|c]\nF(1,2,3)
P_ParametersPlain ==
  <<"#", "d", "e", "f", "i", "n", "e", " ", "F", "(", "a", ",", "b", ",",
    "c", ")", " ", "[", "a", "|", "b", "|", "c", "]", "\n", "F", "(", "1",
    ",", "2", ",", "3", ")">>

\* #define F() x\nF()
P_NoParameters ==
  <<"#", "d", "e", "f", "i", "n", "e", " ", "F", "(", ")", " ", "x", "\n",
    "F", "(", ")">>

\* #define F(a,b ) a-b\nF(1,2)
P_ParametersSpaceBeforeParen ==
  <<"#", "d", "e", "f", "i", "n", "e", " ", "F", "(", "a", ",", "b", " ",
    ")", " ", "a", "-", "b", "\n", "F", "(", "1", ",", "2", ")">>

\* #define F( a, b) a-b\nF(1,2)
P_ParametersSpaceAfterComma ==
  <<"#", "d", "e", "f", "i", "n", "e", " ", "F", "(", " ", "a", ",", " ",
    "b", ")", " ", "a", "-", "b", "\n", "F", "(", "1", ",", "2", ")">>

\* #define FOO 1\nFOO_BAR FOOBAR _FOO
P_UnderscoreNames ==
  <<"#", "d", "e", "f", "i", "n", "e", " ", "F", "O", "O", " ", "1", "\n",
    "F", "O", "O", "_", "B", "A", "R", " ", "F", "O", "O", "B", "A", "R",
    " ", "_", "F", "O", "O">>

\* #define FOO_BAR 1\nFOO_BAR
P_DefineUnderscore ==
  <<"#", "d", "e", "f", "i", "n", "e", " ", "F", "O", "O", "_", "B", "A",
    "R", " ", "1", "\n", "F", "O", "O", "_", "B", "A", "R">>

\* #define F(a) a_b a ab _a\nF(1)
P_ParameterWhole ==
  <<"#", "d", "e", "f", "i", "n", "e", " ", "F", "(", "a", ")", " ", "a",
    "_", "b", " ", "a", " ", "a", "b", " ", "_", "a", "\n", "F", "(", "1",
    ")">>

TestPrograms ==
  {P_SelfObject, P_SelfObjectSecond, P_SelfFunction,
   P_MutualFunction, P_FooFoo, P_IdId,
   P_Foo1, P_Empty, P_Div43,
   P_DivArity, P_Unterminated, P_Redefinitions,
   P_RedefineX, P_RedefineCachedX, P_DuplicatedParameter,
   P_MissingParen, P_MissingParameter, P_UnexpectedCharacter,
   P_BadMacroName, P_RejectedRedefinition, P_NotAtLineStart,
   P_LineCommentThenDirective, P_Spaces, P_Comments,
   P_LineComments, P_ArgumentSpaces, P_DefineNothing,
   P_EmptyBetween,
   P_IdDiv34, P_FooX3, P_FooX3Semi, P_X1FooX3Semi,
   P_IdNested, P_NestedArguments, P_EmptyArguments, P_IdEmpty,
   P_BackslashReturn,
   P_SpliceAtStart, P_SpliceCRLF, P_SpliceInDefine,
   P_DirectiveInString, P_CommentInString,
   P_UnterminatedComment,
   P_EmptyDirective,
   P_MissingParamAtEnd, P_MissingParenAtEnd, P_UnterminatedArgsAtEnd,
   P_OffsetsOfExpansion,
   P_RepeatedInvocation,
   P_DirectiveAtEnd,
   P_EmptyExpansionFirst,
   P_ProbeSpace, P_ProbeComment, P_ULPaRP,
   P_DivSpaced, P_DivPlain, P_DivTokens,
   P_ParametersSpaced, P_ParametersPlain, P_NoParameters, P_ParametersSpaceBeforeParen, P_ParametersSpaceAfterComma,
   P_UnderscoreNames, P_DefineUnderscore, P_ParameterWhole}


\* ---------------------------------------------------------------------------
\* Generated inputs
\* ---------------------------------------------------------------------------

SeqsUpTo(S, n) == UNION {[1..k -> S] : k \in 0..n}

\* every text of at most MaxTextLen characters over TextAlphabet: identifiers,
\* whitespace, newlines, '#' and both kinds of comment
MaxTextLen == 4

TextAlphabet == {"a", " ", "\n", "#", "/", "*"}

FreeTexts == SeqsUpTo(TextAlphabet, MaxTextLen)

\* the line `#define name body`
DefineLine(name, body) ==
  <<"#">> \o directiveDefine \o <<" ">> \o name
    \o (IF body = <<>> THEN <<>> ELSE <<" ">> \o body) \o <<"\n">>

\* two object-like definitions, the second one of the same or of another
\* name, followed by a line of at most MaxUseLen characters that uses them
MaxUseLen == 3

FirstBodies == {<<"a">>, <<>>}

SecondNames == {<<"X">>, <<"Y">>}

SecondBodies == {<<"a">>, <<"b">>, <<>>}

UseAlphabet == {"X", "Y", "_", " "}

ObjectPrelude(b1, n2, b2) == DefineLine(<<"X">>, b1) \o DefineLine(n2, b2)

ObjectPrograms ==
  {ObjectPrelude(b1, n2, b2) \o t :
     b1 \in FirstBodies, n2 \in SecondNames, b2 \in SecondBodies,
     t \in SeqsUpTo(UseAlphabet, MaxUseLen)}

\* `#define ID(x) x` followed by the invocation ID(T), for every argument
\* text T of at most MaxArgLen characters that is free of identifiers,
\* balanced in parentheses, without a comma outside parentheses, and in which
\* whitespace occurs only as single spaces between two other characters
MaxArgLen == 4

ArgAlphabet == {"1", "+", " ", "(", ")", ","}

\* t closes every parenthesis it opens (depth is the number of open ones)
\* and has no comma outside parentheses
RECURSIVE IsOneArgument(_, _)
IsOneArgument(t, depth) ==
  IF t = <<>> THEN depth = 0
  ELSE IF t[1] = "(" THEN IsOneArgument(Tail(t), depth + 1)
  ELSE IF t[1] = ")" THEN depth > 0 /\ IsOneArgument(Tail(t), depth - 1)
  ELSE IF t[1] = "," THEN depth > 0 /\ IsOneArgument(Tail(t), depth)
  ELSE IsOneArgument(Tail(t), depth)

SingleSpaced(t) ==
  /\ t # <<>> /\ t[1] # " " /\ t[Len(t)] # " "
  /\ \A i \in 1..(Len(t) - 1) : ~(t[i] = " " /\ t[i + 1] = " ")

ArgTexts ==
  {t \in SeqsUpTo(ArgAlphabet, MaxArgLen) :
     SingleSpaced(t) /\ IsOneArgument(t, 0)}

\* #define ID(x) x\nID(
IdInvocation ==
  <<"#">> \o directiveDefine
    \o <<" ", "I", "D", "(", "x", ")", " ", "x", "\n", "I", "D", "(">>

IdPrograms == {IdInvocation \o t \o <<")">> : t \in ArgTexts}

\* `#define F(` followed by every text of at most MaxParamLen characters in
\* the place of the parameter list and the body, then a line that uses F
MaxParamLen == 3

ParamAlphabet == {"a", "b", ",", ")", " ", "$"}

\* #define F(
DefineF == <<"#">> \o directiveDefine \o <<" ", "F", "(">>

\* F(1)
UseOfF == <<"F", "(", "1", ")">>

ParameterPrograms ==
  {DefineF \o t \o <<"\n">> \o UseOfF :
     t \in SeqsUpTo(ParamAlphabet, MaxParamLen)}

\* `#define T(a,b,c) [a|b|c]` followed by the invocation T(L), for every text
\* L of at most MaxListLen characters made of commas, parentheses and 1
MaxListLen == 5

ListAlphabet == {"1", ",", "(", ")"}

\* #define T(a,b,c) [a|b|c]\nT(
TInvocation ==
  <<"#">> \o directiveDefine
    \o <<" ", "T", "(", "a", ",", "b", ",", "c", ")", " ", "[", "a", "|",
         "b", "|", "c", "]", "\n", "T", "(">>

ListPrograms ==
  {TInvocation \o t \o <<")">> : t \in SeqsUpTo(ListAlphabet, MaxListLen)}

\* every text of at most MaxSpliceLen characters made of a, backslash, LF,
\* CR and space
MaxSpliceLen == 4

SpliceAlphabet == {"a", "\\", "\n", "\r", " "}

SpliceTexts == SeqsUpTo(SpliceAlphabet, MaxSpliceLen)

\* a string or character literal with every body of at most MaxQuotedLen
\* characters of QuotedAlphabet, alone and after the line `#define a b`
MaxQuotedLen == 3

QuotedAlphabet == {"a", " ", "/", "*", "#"}

\* #define a b\n
DefineA ==
  <<"#">> \o directiveDefine \o <<" ", "a", " ", "b", "\n">>

QuotedPrograms ==
  {d \o <<q>> \o t \o <<q>> :
     d \in {<<>>, DefineA}, q \in {"\"", "'"},
     t \in SeqsUpTo(QuotedAlphabet, MaxQuotedLen)}

\* a line of '#' and at most MaxBlankLen spaces and tabs, after the lines
\* Before and before the lines After
MaxBlankLen == 2

\* #define X 1\n
DefineX1 ==
  <<"#">> \o directiveDefine \o <<" ", "X", " ", "1", "\n">>

Before == {<<>>, <<"a", "\n">>, DefineX1}

After ==
  {<<>>, <<"\n">>, <<"\n", "b">>, <<"\n", "X">>, <<"\r", "\n", "b">>,
   <<"\n">> \o DefineX1 \o <<"X">>}

EmptyDirectivePrograms ==
  {b \o <<"#">> \o sp \o a :
     b \in Before, sp \in SeqsUpTo({" ", "\t"}, MaxBlankLen), a \in After}

\* the name ID of a function-like macro, a run of whitespace and comments,
\* and what follows the run
Gaps ==
  {<<" ">>, <<" ", " ">>, <<"\n">>, <<"\t">>, <<"/", "*", "*", "/">>,
   <<" ", "/", "*", "c", "*", "/", " ">>}

AfterGap == {<<>>, <<";">>, <<"x">>, <<"3">>, <<"(", "3", ")">>}

\* #define ID(x) x\nID
NameOfID ==
  <<"#">> \o directiveDefine
    \o <<" ", "I", "D", "(", "x", ")", " ", "x", "\n", "I", "D">>

ProbePrograms == {NameOfID \o g \o a : g \in Gaps, a \in AfterGap}

\* the argument a b of ID with runs of whitespace and comments before,
\* between and after the two names
ArgumentGaps ==
  {<<>>, <<" ">>, <<" ", " ">>, <<"\t">>, <<"/", "*", "*", "/">>}

SpacedArgumentPrograms ==
  {IdInvocation \o g1 \o <<"a">> \o g2 \o <<"b">> \o g3 \o <<")">> :
     g1 \in ArgumentGaps, g2 \in ArgumentGaps, g3 \in ArgumentGaps}

Programs ==
  TestPrograms \cup FreeTexts \cup ObjectPrograms \cup IdPrograms
    \cup ParameterPrograms \cup ListPrograms \cup SpliceTexts
    \cup QuotedPrograms \cup EmptyDirectivePrograms
    \cup ProbePrograms \cup SpacedArgumentPrograms

\* ---------------------------------------------------------------------------
\* The lexer (src/tplcc/Lexer.cpp) over the SimpleStringScanner of the tests.
\* A lexer record l holds the scanner's input and cursor and the diagnostics
\* reported to errOut.  A char read from the input and converted to int keeps
\* its value; EOF pushed into a std::string is the byte 0xFF.
\* ---------------------------------------------------------------------------

Lexer_new(input) == [input |-> input, cursor |-> 0, listOfErrors |-> <<>>]

SimpleStringScanner_reachedEndOfInput(l) == l.cursor = Len(l.input)

SimpleStringScanner_peek(l) ==
  IF SimpleStringScanner_reachedEndOfInput(l) THEN EOFCH
  ELSE l.input[l.cursor + 1]

\* get() without its result
SimpleStringScanner_ignore(l) ==
  IF SimpleStringScanner_reachedEndOfInput(l) THEN l
  ELSE [l EXCEPT !.cursor = @ + 1]

SimpleStringScanner_peekN(l, n) ==
  [i \in 1..n |-> IF l.cursor + i > Len(l.input) THEN toChar(EOFCH)
                  ELSE l.input[l.cursor + i]]

RECURSIVE SimpleStringScanner_ignoreN(_, _)
SimpleStringScanner_ignoreN(l, n) ==
  IF SimpleStringScanner_reachedEndOfInput(l) \/ n = 0 THEN l
  ELSE SimpleStringScanner_ignoreN(SimpleStringScanner_ignore(l), n - 1)

\* while (pred(scanner.peek())) buffer.push_back(scanner.get()), for the
\* characters S that pred accepts
RECURSIVE pushWhile(_, _, _)
pushWhile(l, buffer, S) ==
  IF SimpleStringScanner_peek(l) \in S
    THEN pushWhile(SimpleStringScanner_ignore(l),
                   Append(buffer, SimpleStringScanner_peek(l)), S)
    ELSE [l |-> l, buffer |-> buffer]

\* buffer.push_back(scanner.get())
pushOne(l, buffer) ==
  [l |-> SimpleStringScanner_ignore(l),
   buffer |-> Append(buffer, toChar(SimpleStringScanner_peek(l)))]

\* the Error a lexer function reports: code range, message (with the texts a
\* and b in the place of its {}) and hint
LexerError(range, message, a, b, hint) ==
  [range |-> range, message |-> message, a |-> a, b |-> b, hint |-> hint]

MsgInvalidSuffix == "\"{}\" is not a valid suffix for the number literal {}."
MsgExponent == "Exponent part of number literal {} has no digit."
MsgHexFloat == "Hexadecimal floating point {} has no exponent part."
MsgOctal == "Invalid octal number."
MsgStringQuote == "The string literal has no ending quote."
MsgCharacterQuote == "The character literal has no ending quote."
MsgStringPrefix == "\"{}\" is not a valid prefix for a string literal."
MsgCharacterPrefix == "\"{}\" is not a valid prefix for a character literal."
MsgStray == "Stray \"{}\" in program."

\* std::optional<Token>, and the exception a call of next() may end with
Token(kind, str, prefix, keyword) ==
  [kind |-> kind, str |-> str, prefix |-> prefix, keyword |-> keyword]

nullopt == Token("nullopt", <<>>, "", "")

EOI == Token("EndOfInput", <<>>, "", "")

exception == Token("exception", <<>>, "", "")

Punctuator(str) == Token("Punctuator", str, "", "")

Identifier(str) == Token("Identifier", str, "", "")

NumberLiteral(str) == Token("NumberLiteral", str, "", "")

Keyword(k) == Token("Keyword", <<>>, "", k)

\* what a lexer function returns: the lexer it leaves and its result
Returns(l, token) == [l |-> l, token |-> token]

\* sorted by allPunctuators with p1.str >= p2.str: descending
ALL_PUNCTUATORS ==
  <<
    <<"~">>, <<"}">>, <<"|", "|">>, <<"|", "=">>, <<"|">>, <<"{">>,
    <<"^", "=">>, <<"^">>, <<"]">>, <<"[">>, <<"?">>, <<">", ">", "=">>,
    <<">", ">">>, <<">", "=">>, <<">">>, <<"=", "=">>, <<"=">>,
    <<"<", "=">>, <<"<", "<", "=">>, <<"<", "<">>, <<"<", ":">>,
    <<"<", "%">>, <<"<">>, <<";">>, <<":", ">">>, <<":">>, <<"/", "=">>,
    <<"/">>, <<".">>, <<"-", ">">>, <<"-", "=">>, <<"-", "-">>, <<"-">>,
    <<",">>, <<"+", "=">>, <<"+", "+">>, <<"+">>, <<"*", "=">>, <<"*">>,
    <<")">>, <<"(">>, <<"&", "=">>, <<"&", "&">>, <<"&">>, <<"%", ">">>,
    <<"%", "=">>, <<"%">>, <<"!", "=">>, <<"!">>
  >>

UNSIGNED_INT_SUFFIX == <<(<<"u">>), (<<"U">>)>>

LONG_INT_SUFFIX == <<(<<"l", "l">>), (<<"L", "L">>), (<<"l">>), (<<"L">>)>>

TYPE_FLOAT_AND_DOUBLE_SUFFIX ==
  <<(<<"F">>), (<<"f">>), (<<"l">>), (<<"L">>)>>

keywordPairs ==
  <<<<<<"_", "B", "o", "o", "l">>, "_Bool">>,
    <<<<"_", "C", "o", "m", "p", "l", "e", "x">>, "_Complex">>,
    <<<<"_", "I", "m", "a", "g", "i", "n", "a", "r", "y">>, "_Imaginary">>,
    <<<<"a", "u", "t", "o">>, "Auto">>,
    <<<<"b", "r", "e", "a", "k">>, "Break">>,
    <<<<"c", "a", "s", "e">>, "Case">>,
    <<<<"c", "o", "n", "s", "t">>, "Const">>,
    <<<<"c", "o", "n", "t", "i", "n", "u", "e">>, "Continue">>,
    <<<<"d", "e", "f", "a", "u", "l", "t">>, "Default">>,
    <<<<"d", "o">>, "Do">>,
    <<<<"d", "o", "u", "b", "l", "e">>, "Double">>,
    <<<<"e", "l", "s", "e">>, "Else">>,
    <<<<"e", "n", "u", "m">>, "Enum">>,
    <<<<"e", "x", "t", "e", "r", "n">>, "Extern">>,
    <<<<"f", "l", "o", "a", "t">>, "Float">>,
    <<<<"f", "o", "r">>, "For">>,
    <<<<"g", "o", "t", "o">>, "Goto">>,
    <<<<"i", "f">>, "If">>,
    <<<<"i", "n", "l", "i", "n", "e">>, "Inline">>,
    <<<<"i", "n", "t">>, "Int">>,
    <<<<"l", "o", "n", "g">>, "Long">>,
    <<<<"r", "e", "g", "i", "s", "t", "e", "r">>, "Register">>,
    <<<<"r", "e", "s", "t", "r", "i", "c", "t">>, "Restrict">>,
    <<<<"r", "e", "t", "u", "r", "n">>, "Return">>,
    <<<<"s", "i", "g", "n", "e", "d">>, "Signed">>,
    <<<<"s", "i", "z", "e", "o", "f">>, "Sizeof">>,
    <<<<"s", "t", "a", "t", "i", "c">>, "Static">>,
    <<<<"s", "t", "r", "u", "c", "t">>, "Struct">>,
    <<<<"s", "w", "i", "t", "c", "h">>, "Switch">>,
    <<<<"t", "y", "p", "e", "d", "e", "f">>, "Typedef">>,
    <<<<"u", "n", "i", "o", "n">>, "Union">>,
    <<<<"u", "n", "s", "i", "g", "n", "e", "d">>, "Unsigned">>,
    <<<<"v", "o", "i", "d">>, "Void">>,
    <<<<"v", "o", "l", "a", "t", "i", "l", "e">>, "Volatile">>,
    <<<<"w", "h", "i", "l", "e">>, "While">>>>

\* the first alternative that str continues with at offset; <<>> for nullptr
matchesSuffix(str, offset, validAlternatives) ==
  With({k \in 1..Len(validAlternatives) :
          /\ offset + Len(validAlternatives[k]) <= Len(str)
          /\ SubSeq(str, offset + 1, offset + Len(validAlternatives[k]))
               = validAlternatives[k]},
       LAMBDA found :
         IF found = {} THEN <<>>
         ELSE validAlternatives[CHOOSE k \in found : \A m \in found : k <= m])

isOctalDigit(ch) == ch \in {"0", "1", "2", "3", "4", "5", "6", "7"}

\* the characters isValidDigit accepts
ValidDigits(numberBase) ==
  IF numberBase = "Octal" THEN {ch \in Digits : isOctalDigit(ch)}
  ELSE IF numberBase = "Decimal" THEN Digits
  ELSE Digits \cup {"a", "b", "c", "d", "e", "f", "A", "B", "C", "D", "E", "F"}

isFirstCharOfExponentPart(ch, numberBase) ==
  IF numberBase = "Decimal" THEN ch \in {"e", "E"} ELSE ch \in {"p", "P"}

\* the two nested loops of scanSuffixes over the suffix buffer[i..]: the
\* for over j, and at j = Len(availableSuffixes) the head of the for over i
RECURSIVE scanSuffixes_loop(_, _, _, _, _)
scanSuffixes_loop(buffer, i, j, hasSeenSuffix, availableSuffixes) ==
  IF j = Len(availableSuffixes)
    THEN IF i < Len(buffer)
           THEN scanSuffixes_loop(buffer, i, 0, hasSeenSuffix,
                                  availableSuffixes)
           ELSE TRUE
  ELSE IF hasSeenSuffix[j + 1] THEN FALSE
  ELSE With(matchesSuffix(buffer, i, availableSuffixes[j + 1]),
            LAMBDA matched :
              IF matched = <<>> THEN FALSE
              ELSE scanSuffixes_loop(buffer, i + Len(matched), j + 1,
                                     [hasSeenSuffix EXCEPT ![j + 1] = TRUE],
                                     availableSuffixes))

\* the functions of NumberLiteralScanner return the lexer, the buffer and
\* whether they found no error
Scanned3(l, buffer, ok) == [l |-> l, buffer |-> buffer, ok |-> ok]

\* scanSuffixes without the diagnostic of an invalid suffix
scanSuffixes_silent(l, buffer, startOffset, availableSuffixes) ==
  With(pushWhile(l, buffer, Letters), LAMBDA r :
    Scanned3(r.l, r.buffer,
             scanSuffixes_loop(r.buffer, Len(buffer), Len(availableSuffixes),
                               [j \in 1..Len(availableSuffixes) |-> FALSE],
                               availableSuffixes)))

scanSuffixes(l, buffer, startOffset, availableSuffixes) ==
  With(pushWhile(l, buffer, Letters), LAMBDA r :
    IF scanSuffixes_loop(r.buffer, Len(buffer), Len(availableSuffixes),
                         [j \in 1..Len(availableSuffixes) |-> FALSE],
                         availableSuffixes)
      THEN Scanned3(r.l, r.buffer, TRUE)
      ELSE Scanned3(reportsError(r.l,
                      LexerError(<<startOffset, r.l.cursor>>, MsgInvalidSuffix,
                                 SubSeq(r.buffer, Len(buffer) + 1,
                                        Len(r.buffer)),
                                 buffer, "invalid suffix.")),
                    r.buffer, FALSE))

scanIntegerSuffixes(l, buffer, startOffset) ==
  scanSuffixes(l, buffer, startOffset,
               <<UNSIGNED_INT_SUFFIX, LONG_INT_SUFFIX>>)

scanDoubleAndFloatSuffixes(l, buffer, startOffset) ==
  scanSuffixes(l, buffer, startOffset, <<TYPE_FLOAT_AND_DOUBLE_SUFFIX>>)

scanExponentPart(l, buffer, startOffset) ==
  With(pushOne(l, buffer), LAMBDA r0 :
  With(IF SimpleStringScanner_peek(r0.l) \in {"+", "-"}
         THEN pushOne(r0.l, r0.buffer) ELSE r0, LAMBDA r1 :
  With(pushWhile(r1.l, r1.buffer, Digits), LAMBDA r2 :
    IF Len(r2.buffer) = Len(r1.buffer)
      THEN With(pushWhile(r2.l, r2.buffer, Letters \cup Digits), LAMBDA r3 :
             Scanned3(reportsError(r3.l,
                        LexerError(<<startOffset, r3.l.cursor>>, MsgExponent,
                                   r3.buffer, <<>>, "Exponent has no digit.")),
                      r3.buffer, FALSE))
      ELSE Scanned3(r2.l, r2.buffer, TRUE))))

\* the literal of a scan that found no error, std::nullopt of one that did
literalOf(r) ==
  Returns(r.l, IF r.ok THEN NumberLiteral(r.buffer) ELSE nullopt)

scanAndCreateIntegerLiteral(l, buffer, startOffset) ==
  literalOf(scanIntegerSuffixes(l, buffer, startOffset))

scanAndCreateFloatLiteral(l, buffer, startOffset, hasExponentPart) ==
  With(IF hasExponentPart THEN scanExponentPart(l, buffer, startOffset)
       ELSE Scanned3(l, buffer, TRUE), LAMBDA r :
    IF ~r.ok THEN Returns(r.l, nullopt)
    ELSE literalOf(scanDoubleAndFloatSuffixes(r.l, r.buffer, startOffset)))

\* the start of scan(): a leading 0, and x or X after it
scanBase(l) ==
  IF SimpleStringScanner_peek(l) # "0"
    THEN [l |-> l, buffer |-> <<>>, numberBase |-> "Decimal"]
  ELSE With(pushOne(l, <<>>), LAMBDA r :
         IF SimpleStringScanner_peek(r.l) \in {"x", "X"}
           THEN With(pushOne(r.l, r.buffer), LAMBDA r1 :
                  [l |-> r1.l, buffer |-> r1.buffer,
                   numberBase |-> "Hexadecimal"])
           ELSE [l |-> r.l, buffer |-> r.buffer, numberBase |-> "Decimal"])

\* scan() from the decimal point on
scanFraction(l, buffer, startOffset, numberBase) ==
  With(pushOne(l, buffer), LAMBDA r0 :
  With(pushWhile(r0.l, r0.buffer, ValidDigits(numberBase)), LAMBDA r :
    IF numberBase = "Hexadecimal"
       /\ ~isFirstCharOfExponentPart(SimpleStringScanner_peek(r.l), numberBase)
      THEN With(pushWhile(r.l, r.buffer, Letters \cup Digits), LAMBDA r3 :
             Returns(reportsError(r3.l,
                       LexerError(<<startOffset, r3.l.cursor>>, MsgHexFloat,
                                  r3.buffer, <<>>,
                                  "Hex float has no exponent part.")),
                     nullopt))
    ELSE IF Len(r.buffer) > Len(r0.buffer)
            \/ isFirstCharOfExponentPart(SimpleStringScanner_peek(r.l),
                                         numberBase)
      THEN scanAndCreateFloatLiteral(r.l, r.buffer, startOffset,
             isFirstCharOfExponentPart(SimpleStringScanner_peek(r.l),
                                       numberBase))
    ELSE scanAndCreateIntegerLiteral(r.l, r.buffer, startOffset)))

\* NumberLiteralScanner::scan without the test of the octal digits
NumberLiteralScanner_scan_anyDigit(l) ==
  With(scanBase(l), LAMBDA b :
  With(pushWhile(b.l, b.buffer, ValidDigits(b.numberBase)), LAMBDA r :
    IF SimpleStringScanner_peek(r.l) = "."
      THEN scanFraction(r.l, r.buffer, l.cursor, b.numberBase)
    ELSE IF isFirstCharOfExponentPart(SimpleStringScanner_peek(r.l),
                                      b.numberBase)
      THEN scanAndCreateFloatLiteral(r.l, r.buffer, l.cursor, TRUE)
    ELSE scanAndCreateIntegerLiteral(r.l, r.buffer, l.cursor)))

NumberLiteralScanner_scan(l) ==
  With(scanBase(l), LAMBDA b :
  With(pushWhile(b.l, b.buffer, ValidDigits(b.numberBase)), LAMBDA r :
    IF SimpleStringScanner_peek(r.l) = "."
      THEN scanFraction(r.l, r.buffer, l.cursor, b.numberBase)
    ELSE IF isFirstCharOfExponentPart(SimpleStringScanner_peek(r.l),
                                      b.numberBase)
      THEN scanAndCreateFloatLiteral(r.l, r.buffer, l.cursor, TRUE)
    ELSE IF /\ r.buffer # <<>> /\ r.buffer[1] = "0"
            /\ b.numberBase # "Hexadecimal"
            /\ \E i \in 1..Len(r.buffer) : ~isOctalDigit(r.buffer[i])
      THEN Returns(reportsError(r.l,
                     LexerError(<<l.cursor, r.l.cursor>>, MsgOctal, <<>>, <<>>,
                                "Invalid octal number.")),
                   nullopt)
    ELSE scanAndCreateIntegerLiteral(r.l, r.buffer, l.cursor)))

StringLiteral(str, prefix) == Token("StringLiteral", str, prefix, "")

CharacterLiteral(str, prefix) == Token("CharacterLiteral", str, prefix, "")

\* std::optional as a sequence of at most one element
getCharSequencePrefix(prefix) ==
  IF prefix = <<"L">> THEN <<"L">>
  ELSE IF prefix = <<>> THEN <<"None">>
  ELSE <<>>

\* the loop of scanCharSequenceContent without the test for a backslash
RECURSIVE scanCharSequenceContent_loop_plain(_, _, _)
scanCharSequenceContent_loop_plain(l, quote, output) ==
  IF /\ ~SimpleStringScanner_reachedEndOfInput(l)
     /\ SimpleStringScanner_peek(l) # quote
     /\ SimpleStringScanner_peek(l) # "\n"
    THEN With(pushOne(l, output), LAMBDA r1 :
           scanCharSequenceContent_loop_plain(r1.l, quote, r1.buffer))
    ELSE [l |-> l, buffer |-> output]

\* the while loop of scanCharSequenceContent
RECURSIVE scanCharSequenceContent_loop(_, _, _)
scanCharSequenceContent_loop(l, quote, output) ==
  IF /\ ~SimpleStringScanner_reachedEndOfInput(l)
     /\ SimpleStringScanner_peek(l) # quote
     /\ SimpleStringScanner_peek(l) # "\n"
    THEN With(IF SimpleStringScanner_peek(l) = "\\"
                THEN pushOne(l, output)
                ELSE [l |-> l, buffer |-> output],
              LAMBDA r :
                With(pushOne(r.l, r.buffer), LAMBDA r1 :
                  scanCharSequenceContent_loop(r1.l, quote, r1.buffer)))
    ELSE [l |-> l, buffer |-> output]

\* scanCharSequenceContent without the throw: the diagnostic only
scanCharSequenceContent_returns(l, quote) ==
  With(scanCharSequenceContent_loop(SimpleStringScanner_ignore(l), quote,
                                    <<>>),
       LAMBDA r :
         IF SimpleStringScanner_reachedEndOfInput(r.l)
            \/ SimpleStringScanner_peek(r.l) = "\n"
           THEN [l |-> reportsError(r.l,
                         LexerError(<<l.cursor, r.l.cursor>>,
                                    IF quote = "\"" THEN MsgStringQuote
                                    ELSE MsgCharacterQuote,
                                    <<>>, <<>>, "No ending quote.")),
                 output |-> r.buffer, thrown |-> FALSE]
           ELSE [l |-> SimpleStringScanner_ignore(r.l), output |-> r.buffer,
                 thrown |-> FALSE])

\* the lexer it leaves, the content, and whether it threw
scanCharSequenceContent(l, quote) ==
  With(scanCharSequenceContent_loop(SimpleStringScanner_ignore(l), quote,
                                    <<>>),
       LAMBDA r :
         IF SimpleStringScanner_reachedEndOfInput(r.l)
            \/ SimpleStringScanner_peek(r.l) = "\n"
           THEN [l |-> reportsError(r.l,
                         LexerError(<<l.cursor, r.l.cursor>>,
                                    IF quote = "\"" THEN MsgStringQuote
                                    ELSE MsgCharacterQuote,
                                    <<>>, <<>>, "No ending quote.")),
                 output |-> r.buffer, thrown |-> TRUE]
           ELSE [l |-> SimpleStringScanner_ignore(r.l), output |-> r.buffer,
                 thrown |-> FALSE])

\* scanCharSequence with the range of the invalid prefix starting at the
\* quote
scanCharSequence_fromQuote(l, quote, prefixStr, startOffset) ==
  With(scanCharSequenceContent(l, quote), LAMBDA r :
    IF r.thrown THEN Returns(r.l, exception)
    ELSE IF getCharSequencePrefix(prefixStr) # <<>>
      THEN Returns(r.l,
                   IF quote = "\""
                     THEN StringLiteral(r.output,
                                        getCharSequencePrefix(prefixStr)[1])
                     ELSE CharacterLiteral(r.output,
                                           getCharSequencePrefix(prefixStr)[1]))
    ELSE Returns(reportsError(r.l,
                   LexerError(<<l.cursor, r.l.cursor>>,
                              IF quote = "\"" THEN MsgStringPrefix
                              ELSE MsgCharacterPrefix,
                              prefixStr, <<>>, "Invalid prefix.")),
                 nullopt))

scanCharSequence(l, quote, prefixStr, startOffset) ==
  With(scanCharSequenceContent(l, quote), LAMBDA r :
    IF r.thrown THEN Returns(r.l, exception)
    ELSE IF getCharSequencePrefix(prefixStr) # <<>>
      THEN Returns(r.l,
                   IF quote = "\""
                     THEN StringLiteral(r.output,
                                        getCharSequencePrefix(prefixStr)[1])
                     ELSE CharacterLiteral(r.output,
                                           getCharSequencePrefix(prefixStr)[1]))
    ELSE Returns(reportsError(r.l,
                   LexerError(<<startOffset, r.l.cursor>>,
                              IF quote = "\"" THEN MsgStringPrefix
                              ELSE MsgCharacterPrefix,
                              prefixStr, <<>>, "Invalid prefix.")),
                 nullopt))

\* the first punctuator of ALL_PUNCTUATORS that the input continues with
scanPunctuator(l) ==
  With({k \in 1..Len(ALL_PUNCTUATORS) :
          ALL_PUNCTUATORS[k]
            = SimpleStringScanner_peekN(l, Len(ALL_PUNCTUATORS[k]))},
       LAMBDA found :
         IF found = {} THEN Returns(l, nullopt)
         ELSE With(ALL_PUNCTUATORS[CHOOSE k \in found :
                                     \A m \in found : k <= m],
                   LAMBDA punct :
                     Returns(SimpleStringScanner_ignoreN(l, Len(punct)),
                             Punctuator(punct))))

readIdentString(l) == pushWhile(l, <<>>, Digits \cup Letters \cup {"_"})

\* the characters of identifiers in the order of their codes
AsciiOrder ==
  <<"0", "1", "2", "3", "4", "5", "6", "7", "8", "9",
    "A", "B", "C", "D", "E", "F", "G", "H", "I", "J", "K", "L", "M", "N",
    "O", "P", "Q", "R", "S", "T", "U", "V", "W", "X", "Y", "Z", "_",
    "a", "b", "c", "d", "e", "f", "g", "h", "i", "j", "k", "l", "m", "n",
    "o", "p", "q", "r", "s", "t", "u", "v", "w", "x", "y", "z">>

charLess(a, b) ==
  \E i, j \in 1..Len(AsciiOrder) :
    AsciiOrder[i] = a /\ AsciiOrder[j] = b /\ i < j

\* operator< of std::string
RECURSIVE stringLess(_, _)
stringLess(s, t) ==
  IF t = <<>> THEN FALSE
  ELSE IF s = <<>> THEN TRUE
  ELSE IF s[1] = t[1] THEN stringLess(Tail(s), Tail(t))
  ELSE charLess(s[1], t[1])

\* std::lower_bound over keywordPairs[first .. first + len - 1] (0-based)
\* with the comparison pair.first < targetKeywordString
RECURSIVE lower_bound(_, _, _)
lower_bound(first, len, str) ==
  IF len = 0 THEN first
  ELSE IF stringLess(keywordPairs[first + (len \div 2) + 1][1], str)
    THEN lower_bound(first + (len \div 2) + 1, len - (len \div 2) - 1, str)
  ELSE lower_bound(first, len \div 2, str)

\* std::optional<Keyword> as a sequence of at most one element
findKeyword(str) ==
  With(lower_bound(0, Len(keywordPairs), str), LAMBDA pos :
    IF pos # Len(keywordPairs) /\ keywordPairs[pos + 1][1] = str
      THEN <<keywordPairs[pos + 1][2]>>
      ELSE <<>>)

\* while (!scanner.reachedEndOfInput() && scanner.peek() != '\n')
RECURSIVE skipLineComment(_)
skipLineComment(l) ==
  IF ~SimpleStringScanner_reachedEndOfInput(l)
     /\ SimpleStringScanner_peek(l) # "\n"
    THEN skipLineComment(SimpleStringScanner_ignore(l))
    ELSE l

\* while (!scanner.reachedEndOfInput() && scanner.peekN(2) != "*/")
RECURSIVE skipBlockComment(_)
skipBlockComment(l) ==
  IF ~SimpleStringScanner_reachedEndOfInput(l)
     /\ SimpleStringScanner_peekN(l, 2) # <<"*", "/">>
    THEN skipBlockComment(SimpleStringScanner_ignore(l))
    ELSE l

\* next() from an identifier's first character on
nextIdentifier(l) ==
  With(readIdentString(l), LAMBDA r :
    IF SimpleStringScanner_peek(r.l) \in {"\"", "'"}
      THEN scanCharSequence(r.l, SimpleStringScanner_peek(r.l), r.buffer,
                            l.cursor)
    ELSE IF findKeyword(r.buffer) # <<>>
      THEN Returns(r.l, Keyword(findKeyword(r.buffer)[1]))
    ELSE Returns(r.l, Identifier(r.buffer)))

\* next() when no other token starts here: a punctuator, or a stray
\* character, which is reported before std::exception is thrown
nextPunctuator(l) ==
  With(scanPunctuator(l), LAMBDA r :
    IF r.token # nullopt THEN r
    ELSE Returns(reportsError(SimpleStringScanner_ignore(l),
                   LexerError(<<l.cursor, l.cursor + 1>>, MsgStray,
                              <<toChar(SimpleStringScanner_peek(l))>>, <<>>,
                              "Invalid character.")),
                 exception))

\* Lexer::next
RECURSIVE Lexer_next(_)
Lexer_next(l0) ==
  With(pushWhile(l0, <<>>, Whitespace).l, LAMBDA l :
    IF SimpleStringScanner_reachedEndOfInput(l) THEN Returns(l, EOI)
    ELSE IF SimpleStringScanner_peekN(l, 2) = <<"/", "/">>
      THEN Lexer_next(SimpleStringScanner_ignore(
                        skipLineComment(SimpleStringScanner_ignoreN(l, 2))))
    ELSE IF SimpleStringScanner_peekN(l, 2) = <<"/", "*">>
      THEN Lexer_next(SimpleStringScanner_ignoreN(
                        skipBlockComment(SimpleStringScanner_ignoreN(l, 2)),
                        2))
    ELSE IF SimpleStringScanner_peek(l) \in Letters \cup {"_"}
      THEN nextIdentifier(l)
    ELSE IF SimpleStringScanner_peek(l) \in {"\"", "'"}
      THEN scanCharSequence(l, SimpleStringScanner_peek(l), <<>>, l.cursor)
    ELSE IF SimpleStringScanner_peek(l) = "."
      THEN IF SimpleStringScanner_peekN(l, 2)[2] \in Digits
             THEN NumberLiteralScanner_scan(l)
             ELSE Returns(SimpleStringScanner_ignore(l), Punctuator(<<".">>))
    ELSE IF SimpleStringScanner_peek(l) \in Digits
      THEN NumberLiteralScanner_scan(l)
    ELSE nextPunctuator(l))

\* ---------------------------------------------------------------------------
\* Inputs of the lexer
\* ---------------------------------------------------------------------------

\* words: the spellings of keywordPairs, the identifiers of test_identifier,
\* and words that differ from a keyword in case or in one character
Words ==
  {keywordPairs[i][1] : i \in 1..Len(keywordPairs)}
    \cup {<<"c", "h", "a", "r">>, <<"I", "n", "t">>, <<"I", "N", "T">>,
          <<"f", "o", "o">>, <<"_", "f", "o", "o">>, <<"F", "o", "o">>,
          <<"f", "o", "o", "1", "2">>, <<"_", "b", "o", "o", "l">>}

WordTails == {<<>>, <<" ", "x">>, <<";">>, <<"+", "1">>}

WordInputs ==
  {w \o t : w \in Words \cup {v \o <<"s">> : v \in Words}
                  \cup {Front(v) : v \in Words},
            t \in WordTails}

\* integer literals followed by every run of at most MaxSuffixLen letters of
\* SuffixAlphabet
MaxSuffixLen == 3

SuffixAlphabet == {"u", "U", "l", "L", "f"}

IntegerHeads ==
  {<<"1", "7", "1">>, <<"0", "1", "7">>, <<"0", "x", "1", "A">>, <<"4">>}

IntegerInputs ==
  {h \o s : h \in IntegerHeads, s \in SeqsUpTo(SuffixAlphabet, MaxSuffixLen)}

\* a digit followed by every text of at most MaxNumberLen characters of
\* NumberAlphabet
MaxNumberLen == 3

NumberAlphabet == {"4", "x", ".", "e", "p", "+", "f", "u", "a", " "}

NumberInputs ==
  {<<d>> \o t : d \in {"4", "0"}, t \in SeqsUpTo(NumberAlphabet, MaxNumberLen)}

\* string and character literals: an optional prefix, the quote, at most
\* MaxUnits units (a plain byte, the two bytes of a UTF-8 sequence, or a
\* backslash with the byte after it), and an ending
MaxUnits == 2

Prefixes == {<<>>, <<"L">>, <<"u">>}

\* the units of a literal in quotes q: a quote occurs only after a backslash
Units(q) ==
  {<<"a">>, <<IF q = "'" THEN "\"" ELSE "'">>, <<"XC3", "XA9">>,
   <<"\\", "\"">>, <<"\\", "'">>, <<"\\", "\\">>, <<"\\", "j">>,
   <<"\\", "\n">>}

RECURSIVE Concatenations(_, _)
Concatenations(S, n) ==
  IF n = 0 THEN {<<>>}
  ELSE {<<>>} \cup {u \o t : u \in S, t \in Concatenations(S, n - 1)}

\* after the content: the closing quote (and what follows it), the end of
\* the input, a newline, or a backslash at the end of the input
Endings(quote) ==
  {<<quote>>, <<quote, " ", "a">>, <<quote, quote>>, <<>>, <<"\n", quote>>,
   <<"\\">>}

LiteralsIn(q) ==
  {p \o <<q>> \o c \o e :
     p \in Prefixes, c \in Concatenations(Units(q), MaxUnits),
     e \in Endings(q)}

LiteralInputs == LiteralsIn("\"") \cup LiteralsIn("'")

\* literals written with an identifier before the quote, as
\* testInvalidStringPrefix and testInvalidCharacterPrefix write them: the
\* prefixes of the tests, and LL, l and the keyword int
InvalidPrefixes ==
  {<<"u", "8">>, <<"u">>, <<"U">>, <<"f", "o", "o">>, <<"_">>,
   <<"_", "3", "1", "3">>, <<"_", "f", "o", "o">>, <<"L", "L">>, <<"l">>,
   <<"i", "n", "t">>}

PrefixedBodies(q) ==
  {<<"h", "e", "l", "l", "o">>, <<"0">>, <<>>, <<"a", "\\", q, "b">>,
   <<"/", "/", " ", "\\", "\\">>}

PrefixedLiterals ==
  {sp \o p \o <<q>> \o b \o <<q>> \o e :
     sp \in {<<>>, <<" ", " ", " ", " ", " ", " ">>}, p \in InvalidPrefixes,
     q \in {"\"", "'"}, b \in PrefixedBodies("\"") \cup PrefixedBodies("'"),
     e \in {<<>>, <<" ", "x">>}}

\* literals with a decimal point followed by every run of at most
\* MaxSuffixLen letters of FloatSuffixAlphabet
FloatSuffixAlphabet == {"f", "F", "l", "L", "u", "a"}

FloatHeads ==
  {<<"4", ".">>, <<"4", ".", "0">>, <<"1", "0", "0", ".", "3", "3">>,
   <<"1", ".", "0">>, <<".", "3", "3">>, <<"0", "1", "2", "3", ".", "1">>,
   <<"4", ".", "e", "1">>, <<"1", "0", "0", ".", "3", "3", "e", "-", "1">>,
   <<"0", "x", "1", ".", "p", "1">>,
   <<"0", "x", "a", ".", "3", "d", "p", "+", "1">>}

FloatInputs ==
  {h \o s : h \in FloatHeads,
            s \in SeqsUpTo(FloatSuffixAlphabet, MaxSuffixLen)}

\* punctuators: every punctuator of ALL_PUNCTUATORS and the ellipsis, alone
\* and before " a", and every text of at most MaxPunctuatorLen characters of
\* PunctuatorAlphabet
MaxPunctuatorLen == 3

PunctuatorAlphabet == {"<", ">", "=", "-", ".", ":", "%", "+", "&", "|"}

PunctuatorInputs ==
  {p \o e : p \in {ALL_PUNCTUATORS[i] : i \in 1..Len(ALL_PUNCTUATORS)}
                    \cup {<<".", ".", ".">>},
            e \in {<<>>, <<" ", "a">>}}
    \cup SeqsUpTo(PunctuatorAlphabet, MaxPunctuatorLen)

\* every text of at most MaxStrayLen characters of StrayAlphabet
MaxStrayLen == 3

StrayAlphabet == {BACKTICK, "@", "$", "a", " ", "+"}

StrayInputs == SeqsUpTo(StrayAlphabet, MaxStrayLen)

\* inputs of test-lexer.cpp
\* 0171uLL
LT_Integer ==
  <<"0", "1", "7", "1", "u", "L", "L">>

\* 0x171ABCuLL
LT_HexInteger ==
  <<"0", "x", "1", "7", "1", "A", "B", "C", "u", "L", "L">>

\* 4.0ul
LT_4_0ul ==
  <<"4", ".", "0", "u", "l">>

\* 4.abc
LT_4_abc ==
  <<"4", ".", "a", "b", "c">>

\* 4e+uf
LT_ExponentUf ==
  <<"4", "e", "+", "u", "f">>

\* 0Xa.1p-a
LT_HexExponentA ==
  <<"0", "X", "a", ".", "1", "p", "-", "a">>

\* 0Xa.1cu
LT_HexCu ==
  <<"0", "X", "a", ".", "1", "c", "u", " ", " ", " ", " ", " ", " ">>

\* 0xa.1f
LT_HexF ==
  <<"0", "x", "a", ".", "1", "f", " ", " ", " ", " ", " ", " ">>

\* 0X.1F
LT_HexDotF ==
  <<"0", "X", ".", "1", "F", " ", " ", " ", " ", " ", " ">>

\* 100.33e-10f
LT_Float ==
  <<"1", "0", "0", ".", "3", "3", "e", "-", "1", "0", "f">>

\* 0xabc.3defp+10f
LT_HexFloat ==
  <<"0", "x", "a", "b", "c", ".", "3", "d", "e", "f", "p", "+", "1", "0",
    "f">>

\* L"hello, world"
LT_Hello ==
  <<"L", "\"", "h", "e", "l", "l", "o", ",", " ", "w", "o", "r", "l", "d",
    "\"", " ", " ", " ", " ">>

\* "\j\9\xz\1212\xaj"
LT_InvalidEscapes ==
  <<"\"", "\\", "j", "\\", "9", "\\", "x", "z", "\\", "1", "2", "1", "2",
    "\\", "x", "a", "j", "\"", " ", " ", " ", " ">>

\* '\xab\12\xff\x34'
LT_CharacterEscapes ==
  <<"'", "\\", "x", "a", "b", "\\", "1", "2", "\\", "x", "f", "f", "\\",
    "x", "3", "4", "'", " ", " ", " ", " ">>

\*       u8"hello"
LT_InvalidPrefix ==
  <<" ", " ", " ", " ", " ", " ", "u", "8", "\"", "h", "e", "l", "l", "o",
    "\"">>

\* "hello\n
LT_MissingQuote ==
  <<"\"", "h", "e", "l", "l", "o", "\n">>

\* 'h\v
LT_CharacterMissingQuote ==
  <<"'", "h", "VT">>

\* `@
LT_Stray ==
  <<BACKTICK, "@">>

\* 313 /* <- A INT \r\n A IDENTIFIER . */ foo
LT_Comments ==
  <<"3", "1", "3", " ", "/", "*", " ", "<", "-", " ", "A", " ", "I", "N",
    "T", " ", "\r", "\n", " ", "A", " ", "I", "D", "E", "N", "T", "I", "F",
    "I", "E", "R", " ", ".", " ", "*", "/", " ", "f", "o", "o", " ", " ",
    " ">>

\* // foo = 313
LT_LineComment ==
  <<"/", "/", " ", "f", "o", "o", " ", "=", " ", "3", "1", "3">>

LexerTests ==
  {LT_Integer, LT_HexInteger, LT_4_0ul, LT_4_abc, LT_ExponentUf,
   LT_HexExponentA, LT_HexCu, LT_HexF, LT_HexDotF, LT_Float, LT_HexFloat,
   LT_Hello, LT_InvalidEscapes, LT_CharacterEscapes, LT_InvalidPrefix,
   LT_MissingQuote, LT_CharacterMissingQuote, LT_Stray, LT_Comments,
   LT_LineComment}

\* literals in decimal base with a leading 0: a run of at most MaxOctalLen
\* digits after the 0, and what follows the run
MaxOctalLen == 3

OctalRuns ==
  {<<"0">> \o t : t \in SeqsUpTo({"0", "7", "8", "9"}, MaxOctalLen)}

\* a '.' or an exponent after the run
FloatTails ==
  {<<".">>, <<".", "5">>, <<"e", "1">>, <<"E", "+", "1">>, <<".", "e", "1">>}

\* neither a '.' nor an exponent introducer after the run
IntegerTails ==
  {<<>>, <<" ">>, <<";">>, <<"u">>, <<"x">>, <<"p", "1">>, <<"u", "l">>}

OctalLeads == {<<>>, <<" ">>}

OctalInputs ==
  {s \o r \o t :
     s \in OctalLeads, r \in OctalRuns, t \in FloatTails \cup IntegerTails}

\* literals with a raw LF, CR, VT or FF in the body, the matching quote
\* coming later, or never
LineBreaks == {"\n", "\r", "VT", "\f"}

BrokenIn(q) ==
  {p \o <<q>> \o b \o <<c>> \o e :
     p \in {<<>>, <<"L">>},
     b \in {<<>>, <<"a">>, <<"h", "e", "l", "l", "o">>, <<"\\", "\\">>},
     c \in LineBreaks, e \in {<<>>, <<q>>, <<"b", q>>}}

BrokenLiterals == BrokenIn("\"") \cup BrokenIn("'")

LexerInputs ==
  WordInputs \cup IntegerInputs \cup NumberInputs \cup LiteralInputs
    \cup PrefixedLiterals \cup FloatInputs \cup PunctuatorInputs
    \cup OctalInputs \cup BrokenLiterals \cup StrayInputs
    \cup LexerTests

\* ---------------------------------------------------------------------------
\* Preprocessor (the wrapper with one character of lookahead) and the client
\* loop of the tests: `while (!pp.reachedEndOfInput()) output += pp.get()`
\* ---------------------------------------------------------------------------

PPCharacter(ch, offset) == [ch |-> ch, offset |-> offset]

PPCharacter_eof == PPCharacter(EOFCH, 0)

\* one call of ppImpl.get() from the wrapper
callGet == PPImpl_get(pp, {pp})

\* the position of the client after a call that returned r
after(r) ==
  IF crashed(r.w) THEN r.w.crash ELSE IF r.ch = EOFCH THEN "eof" ELSE "run"

Init ==
  /\ source \in Programs
  /\ \E uninitialized \in BOOLEAN : pp = PPImpl_new(source, uninitialized)
  /\ lookaheadBuffer = <<>>
  /\ emitted = <<>>
  /\ pc = IF crashed(pp) THEN pp.crash ELSE "run"
  /\ lexer = Lexer_new(<<>>)
  /\ returned = <<>>

\* Preprocessor::get
Get ==
  /\ pc \in {"run", "eof"}
  /\ IF lookaheadBuffer # <<>>
       THEN /\ emitted' = Append(emitted, lookaheadBuffer[1].ch)
            /\ lookaheadBuffer' = <<>>
            /\ UNCHANGED <<pp, pc>>
       ELSE \E r \in {callGet} :
              /\ pp' = r.w
              /\ pc' = after(r)
              /\ emitted' = IF after(r) = "run" THEN Append(emitted, r.ch)
                                               ELSE emitted
              /\ UNCHANGED lookaheadBuffer
  /\ UNCHANGED <<source, lexer, returned>>

\* Preprocessor::peek (and reachedEndOfInput, which is peek() == EOF)
Peek ==
  /\ pc \in {"run", "eof"}
  /\ lookaheadBuffer = <<>>
  /\ \E r \in {callGet} :
       /\ pp' = r.w
       /\ pc' = after(r)
       /\ lookaheadBuffer' = IF after(r) = "run"
                               THEN <<PPCharacter(r.ch, r.offset)>>
                               ELSE <<>>
  /\ UNCHANGED <<source, emitted, lexer, returned>>

Next == Get \/ Peek

Spec == Init /\ [][Next]_vars

\* ---------------------------------------------------------------------------
\* The lexer and the caller of the tests: `lexer.next()`, called again until
\* it returned EOI, MaxCalls times at most.  The caller may go on after an
\* exception, as test_invalid_characters does.
\* ---------------------------------------------------------------------------

MaxCalls == 3

LexInit ==
  /\ lexer \in {Lexer_new(input) : input \in LexerInputs}
  /\ returned = <<>>
  /\ source = <<>>
  /\ pp = PPImpl_new(<<>>, FALSE)
  /\ lookaheadBuffer = <<>>
  /\ emitted = <<>>
  /\ pc = "lexer"

\* one call of lexer.next(): its result, the scanner's offset before and
\* after it, and the number of diagnostics reported so far
CallNext ==
  /\ pc = "lexer"
  /\ Len(returned) < MaxCalls
  /\ IF returned = <<>> THEN TRUE ELSE Last(returned).token # EOI
  /\ \E r \in {Lexer_next(lexer)} :
       /\ lexer' = r.l
       /\ returned' = Append(returned,
                             [token |-> r.token, start |-> lexer.cursor,
                              offset |-> r.l.cursor,
                              errors |-> Len(r.l.listOfErrors)])
  /\ UNCHANGED <<source, pp, lookaheadBuffer, emitted, pc>>

LexNext == CallNext

LexSpec == LexInit /\ [][LexNext]_vars

\* ---------------------------------------------------------------------------
\* Properties
\* ---------------------------------------------------------------------------

\* texts the properties compare the output with
\* 'R'
T_R ==
  <<"R">>

\* 'BAR FOO(2)'
T_BarFoo2 ==
  <<"B", "A", "R", " ", "F", "O", "O", "(", "2", ")">>

\* 'ID(3)'
T_Id3 ==
  <<"I", "D", "(", "3", ")">>

\* 'int a = 1'
T_IntA1 ==
  <<"i", "n", "t", " ", "a", " ", "=", " ", "1">>

\* ' ;'
T_SpaceSemi ==
  <<" ", ";">>

\* '((4) / (3))'
T_Div43 ==
  <<"(", "(", "4", ")", " ", "/", " ", "(", "3", ")", ")">>

\* 'DIV DIV'
T_DivDiv ==
  <<"D", "I", "V", " ", "D", "I", "V">>

\* 'F'
T_F ==
  <<"F">>

\* 'b'
T_b ==
  <<"b">>

\* 'F(1, 2) A'
T_F12A ==
  <<"F", "(", "1", ",", " ", "2", ")", " ", "A">>

\* 'F(1)'
T_F1 ==
  <<"F", "(", "1", ")">>

\* 'int a = 10; #define FOO 10 int b = FOO'
T_NotAtLineStart ==
  <<"i", "n", "t", " ", "a", " ", "=", " ", "1", "0", ";", " ", "#", "d",
    "e", "f", "i", "n", "e", " ", "F", "O", "O", " ", "1", "0", " ", "i",
    "n", "t", " ", "b", " ", "=", " ", "F", "O", "O">>

\* 'FOO BAR'
T_FooBar ==
  <<"F", "O", "O", " ", "B", "A", "R">>

\* 'FO O 3'
T_FoO3 ==
  <<"F", "O", " ", "O", " ", "3">>

\* '1 2'
T_1_2 ==
  <<"1", " ", "2">>

\* 'O2'
T_O2 ==
  <<"O", "2">>

\* 'B'
T_B ==
  <<"B">>

\* 'C'
T_C ==
  <<"C">>

\* 'DIV'
T_DIV ==
  <<"D", "I", "V">>

\* 'a b'
T_a_b ==
  <<"a", " ", "b">>

\* '((3) / (4))'
T_Div34 ==
  <<"(", "(", "3", ")", " ", "/", " ", "(", "4", ")", ")">>

\* '3'
T_3 ==
  <<"3">>

\* '3;'
T_3Semi ==
  <<"3", ";">>

\* '1 3;'
T_1_3Semi ==
  <<"1", " ", "3", ";">>

\* '(3,4)'
T_Nested34 ==
  <<"(", "3", ",", "4", ")">>

\* '(((a), (b)), (), ())'
T_NestedArguments ==
  <<"(", "(", "(", "a", ")", ",", " ", "(", "b", ")", ")", ",", " ", "(",
    ")", ",", " ", "(", ")", ")">>

\* '(,,) (a,,) (,a,) (,,a) (a,a,) (a,,a) (,a,a)'
T_EmptyArguments ==
  <<"(", ",", ",", ")", " ", "(", "a", ",", ",", ")", " ", "(", ",", "a",
    ",", ")", " ", "(", ",", ",", "a", ")", " ", "(", "a", ",", "a", ",",
    ")", " ", "(", "a", ",", ",", "a", ")", " ", "(", ",", "a", ",", "a",
    ")">>

\* 'int a = 20 '
T_IntA20 ==
  <<"i", "n", "t", " ", "a", " ", "=", " ", "2", "0", " ">>

\* 'ab'
T_ab ==
  <<"a", "b">>

\* '12;'
T_12Semi ==
  <<"1", "2", ";">>

\* 'int a = 10;'
T_IntA10 ==
  <<"i", "n", "t", " ", "a", " ", "=", " ", "1", "0", ";">>

\* '1+1+2'
T_1p1p2 ==
  <<"1", "+", "1", "+", "2">>

\* 'U ( a )'
T_ULPaRP ==
  <<"U", " ", "(", " ", "a", " ", ")">>

\* '((1 + 2+ !foo.bar) / (3))'
T_DivTokens ==
  <<"(", "(", "1", " ", "+", " ", "2", "+", " ", "!", "f", "o", "o", ".",
    "b", "a", "r", ")", " ", "/", " ", "(", "3", ")", ")">>

\* '[1|2|3]'
T_123Bars ==
  <<"[", "1", "|", "2", "|", "3", "]">>

\* '1-2'
T_1m2 ==
  <<"1", "-", "2">>

\* 'FOO_BAR FOOBAR _FOO'
T_UnderscoreNames ==
  <<"F", "O", "O", "_", "B", "A", "R", " ", "F", "O", "O", "B", "A", "R",
    " ", "_", "F", "O", "O">>

\* 'a_b 1 ab _a'
T_ParameterWhole ==
  <<"a", "_", "b", " ", "1", " ", "a", "b", " ", "_", "a">>


\* the message the tests expect for a redefinition
MsgRedefined == "Macro \"{}\" redefined."

\* the client has read the whole output
Finished == pc = "eof"

errors == pp.listOfErrors

\* the diagnostic messages reported so far, with the names they mention
reported ==
  [i \in 1..Len(errors) |-> <<errors[i].message, errors[i].name>>]

\* the output of program p, once the client has read all of it, is text t
Outputs(p, t) == (source = p /\ Finished) => emitted = t

\* C1: every get() call runs to completion for every input and macro table,
\* self-referential and mutually recursive definitions included: no call
\* recurses without bound through get(), tryExpandingMacro or
\* expandFunctionLikeMacro, and none loops for ever
C1_GetRunsToCompletion == pc \notin {"loop", "overflow"}

\* C2: a macro name met while rescanning its own expansion is not expanded
\* again: `#define R R` with R outputs R, `#define FOO(x) BAR x` with
\* FOO(FOO)(2) outputs BAR FOO(2), `#define ID(x) x` with ID(ID)(3) outputs
\* ID(3)
C2_PaintedBlue ==
  /\ Outputs(P_SelfObject, T_R)
  /\ Outputs(P_FooFoo, T_BarFoo2)
  /\ Outputs(P_IdId, T_Id3)

IsPrefix(p, t) == Len(p) <= Len(t) /\ SubSeq(t, 1, Len(p)) = p

Suffix(t, n) == SubSeq(t, n + 1, Len(t))

\* the text out followed by the text r, two adjacent spaces being one
Joined(out, r) ==
  IF out # <<>> /\ r # <<>> /\ Last(out) = " " /\ r[1] = " "
    THEN out \o Tail(r) ELSE out \o r

IdentifierCharacters == Letters \cup Digits \cup {"_"}

\* the length of the longest prefix of t made of characters of S
RECURSIVE RunLength(_, _)
RunLength(t, S) ==
  IF t # <<>> /\ t[1] \in S THEN 1 + RunLength(Tail(t), S) ELSE 0

\* the body that the definitions defs, a sequence of <<name, body>> in the
\* order of their lines, give the name: <<body>> of the last definition of
\* the name, <<>> when there is none
Defined(defs, name) ==
  LET lines == {i \in 1..Len(defs) : defs[i][1] = name}
  IN  IF lines = {} THEN <<>>
      ELSE <<defs[CHOOSE i \in lines : \A j \in lines : j <= i][2]>>

\* what a line of identifiers and spaces becomes when every whole identifier
\* that defs define is replaced by its body (one space for an empty body)
\* and every run of spaces by one space
RECURSIVE Substituted(_, _, _)
Substituted(t, defs, out) ==
  IF t = <<>> THEN out
  ELSE IF isStartOfIdentifier(t[1])
    THEN LET n == RunLength(t, IdentifierCharacters)
             name == SubSeq(t, 1, n)
             body == Defined(defs, name)
             text == IF body = <<>> THEN name
                     ELSE IF body[1] = <<>> THEN <<" ">>
                     ELSE body[1]
         IN  Substituted(Suffix(t, n), defs, Joined(out, text))
  ELSE IF isSpace(t[1])
    THEN Substituted(Suffix(t, RunLength(t, Whitespace)), defs,
                     Joined(out, <<" ">>))
  ELSE Substituted(Tail(t), defs, Append(out, t[1]))

\* the expected output of the program of ObjectPrograms with this prelude
ObjectOutput(b1, n2, b2) ==
  LET use == Suffix(source, Len(ObjectPrelude(b1, n2, b2)))
  IN  Substituted(Suffix(use, RunLength(use, Whitespace)),
                  <<<<(<<"X">>), b1>>, <<n2, b2>>>>, <<>>)

IsNoSpace(ch) == ch # " "

\* the text t without its spaces
WithoutSpaces(t) == SelectSeq(t, IsNoSpace)

\* the text t with every run of spaces reduced to one space
RECURSIVE Squeezed(_)
Squeezed(t) ==
  IF Len(t) < 2 THEN t
  ELSE IF t[1] = " " /\ t[2] = " " THEN Squeezed(Tail(t))
  ELSE <<t[1]>> \o Squeezed(Tail(t))

\* C3: each occurrence of a whole identifier that names an object-like macro
\* defined on an earlier line is replaced by the macro's body, or by one
\* space when the body is empty, and every other character that is not in a
\* run of whitespace is output unchanged and in order: `#define EMPTY` with
\* EMPTY; outputs ' ;', `#define FOO 1` with `int a = FOO` outputs
\* `int a = 1` (spaces that meet at the edge of an expansion count as one)
C3_ObjectLikeExpansion ==
  /\ Outputs(P_Foo1, T_IntA1)
  /\ Outputs(P_Empty, T_SpaceSemi)
  /\ (Finished /\ source \in ObjectPrograms) =>
       \A b1 \in FirstBodies, n2 \in SecondNames, b2 \in SecondBodies :
         IsPrefix(ObjectPrelude(b1, n2, b2), source) =>
           Squeezed(emitted) = ObjectOutput(b1, n2, b2)

\* C4: function-like expansion is pure parameter substitution: for
\* `#define ID(x) x` and every argument text T that is free of identifiers,
\* balanced in parentheses and without a top-level comma, ID(T) outputs
\* exactly T; and DIV(4, 3) with `#define DIV(foo, bar) ((foo) / (bar))`
\* outputs ((4) / (3))
C4_ParameterSubstitution ==
  /\ Outputs(P_Div43, T_Div43)
  /\ (Finished /\ source \in IdPrograms) =>
       emitted = SubSeq(source, Len(IdInvocation) + 1, Len(source) - 1)

\* the diagnostic `The macro "name" requires n argument(s), but got m.`
IsArityError(e, name, n, m) ==
  e.message = MsgArity /\ e.name = name /\ e.a = n /\ e.b = m

\* C5: a function-like invocation that fails structurally (wrong number of
\* arguments, or end of input before the closing parenthesis) reports exactly
\* one diagnostic, enters no expansion section, and the macro name itself is
\* output verbatim: with DIV of two parameters `DIV(a) DIV(a,b,c)` outputs
\* `DIV DIV` with the two arity diagnostics in that order, and the
\* unterminated `F(adfadwf ...` outputs F with one diagnostic
C5_FailedInvocation ==
  /\ (source = P_DivArity /\ Finished) =>
       /\ emitted = T_DivDiv
       /\ Len(errors) = 2
       /\ IsArityError(errors[1], T_DIV, 2, 1)
       /\ IsArityError(errors[2], T_DIV, 2, 3)
       /\ sectionCount(pp) = 1
  /\ (source = P_Unterminated /\ Finished) =>
       /\ emitted = T_F
       /\ reported = <<<<MsgUnterminatedArgs, T_F>>>>
       /\ sectionCount(pp) = 1

\* C6: a #define of a name that is already defined reports
\* `Macro "NAME" redefined.` exactly when the new definition differs from the
\* stored one, and nothing when it is identical: the pairs of the test yield
\* three diagnostics, for O2, B and C in that order, and `#define X b1`
\* followed by `#define n2 b2` yields one exactly when n2 is X and b2 is
\* not b1
C6_RedefinitionDiagnostic ==
  /\ (source = P_Redefinitions /\ Finished) =>
       reported = <<<<MsgRedefined, T_O2>>, <<MsgRedefined, T_B>>,
                    <<MsgRedefined, T_C>>>>
  /\ (Finished /\ source \in ObjectPrograms) =>
       \A b1 \in FirstBodies, n2 \in SecondNames, b2 \in SecondBodies :
         IsPrefix(ObjectPrelude(b1, n2, b2), source) =>
           reported = IF n2 = <<"X">> /\ b2 # b1
                        THEN <<<<MsgRedefined, n2>>>> ELSE <<>>

\* C7: after a redefinition the new definition stands: with `#define X a`
\* then `#define X b` every later X expands to b, also when X was expanded
\* (and cached) between the two lines; after `#define X b1` and
\* `#define X b2` the table gives X the body b2; and the macro table never
\* holds two definitions of one name
C7_RedefinitionReplaces ==
  /\ Outputs(P_RedefineX, T_b)
  /\ (source = P_RedefineCachedX /\ Finished) =>
       WithoutSpaces(emitted) = <<"a", "b">>
  /\ source \in ObjectPrograms =>
       \A b1 \in FirstBodies, b2 \in SecondBodies :
         IsPrefix(ObjectPrelude(b1, <<"X">>, b2), source) =>
           /\ isDefined(pp, <<"X">>)
           /\ findMacro(pp, <<"X">>).body = b2
  /\ \A m1, m2 \in pp.setOfMacroDefinitions : m1.name = m2.name => m1 = m2

\* A text without macros, read as the rules for comments, whitespace and
\* directives say. i is the next position, mode is "code", "block" (inside
\* /* */) or "line" (inside //), fresh tells that no character other than
\* whitespace and comments was met on the logical line so far. The result
\* gives the offsets of the '#' that start a directive, and the text with
\* every run of whitespace and comments between two other characters as one
\* space (meaningful when there is no directive).
RECURSIVE Scanned(_, _, _, _, _, _)
Scanned(t, i, mode, fresh, out, starts) ==
  LET spaced == IF out = <<>> THEN out ELSE Joined(out, <<" ">>)
      next == IF i < Len(t) THEN t[i + 1] ELSE EOFCH
  IN  IF i > Len(t) THEN [out |-> out, directives |-> starts]
      ELSE IF mode = "block"
        THEN IF t[i] = "*" /\ next = "/"
               THEN Scanned(t, i + 2, "code", fresh, out, starts)
               ELSE Scanned(t, i + 1, "block", fresh, out, starts)
      ELSE IF mode = "line"
        THEN IF isNewlineCharacter(t[i])
               THEN Scanned(t, i, "code", fresh, out, starts)
               ELSE Scanned(t, i + 1, "line", fresh, out, starts)
      ELSE IF t[i] = "/" /\ next = "*"
        THEN Scanned(t, i + 2, "block", fresh, spaced, starts)
      ELSE IF t[i] = "/" /\ next = "/"
        THEN Scanned(t, i + 2, "line", fresh, spaced, starts)
      ELSE IF isNewlineCharacter(t[i])
        THEN Scanned(t, i + 1, "code", TRUE, spaced, starts)
      ELSE IF isSpace(t[i])
        THEN Scanned(t, i + 1, "code", fresh, spaced, starts)
      ELSE IF t[i] = "#" /\ fresh
        THEN Scanned(t, i + 1, "code", FALSE, out, starts \cup {i - 1})
      ELSE Scanned(t, i + 1, "code", FALSE, Append(out, t[i]), starts)

Read(t) == Scanned(t, 1, "code", TRUE, <<>>, {})

\* the offsets at which the preprocessor started to parse a directive
directivesParsed == {pp.log[i].start : i \in 1..Len(pp.log)}

\* C9: a '#' starts a directive if and only if it is the first character on
\* its logical line that is neither whitespace nor part of a comment; a '#'
\* after any other character is an ordinary character and its line ordinary
\* text (`int a = 10; #define FOO 10` defines nothing), and a '#' at the
\* start of a line is a directive also when the line before it ended with a
\* // comment
C9_DirectiveAtLineStart ==
  /\ Outputs(P_NotAtLineStart, T_NotAtLineStart)
  /\ source = P_NotAtLineStart => pp.setOfMacroDefinitions = {}
  /\ (Finished /\ source = P_LineCommentThenDirective) =>
       isDefined(pp, <<"X">>)
  /\ (Finished /\ source \in FreeTexts) =>
       directivesParsed = Read(source).directives

WithoutLastSpace(t) ==
  IF t # <<>> /\ Last(t) = " " THEN Front(t) ELSE t

Count(t, ch) == Cardinality({i \in 1..Len(t) : t[i] = ch})

\* C10: every maximal nonempty run of whitespace and comments between two
\* output characters of the source is emitted as exactly one space
\* (`FOO  \r\n   \t  BAR` outputs `FOO BAR`, `FO   /**/O/* */   FOO` with FOO
\* defined as 3 outputs `FO O 3`), in ordinary text and inside the argument
\* of an invocation alike (`ID(1 2)` outputs `1 2`), and a source of line
\* comments only emits nothing
C10_WhitespaceCollapsed ==
  /\ Outputs(P_Spaces, T_FooBar)
  /\ Outputs(P_Comments, T_FoO3)
  /\ Outputs(P_LineComments, <<>>)
  /\ (Finished /\ source \in FreeTexts /\ Read(source).directives = {}) =>
       WithoutLastSpace(emitted) = WithoutLastSpace(Read(source).out)
  /\ Outputs(P_ArgumentSpaces, T_1_2)
  /\ (Finished /\ source \in IdPrograms) =>
       Count(emitted, " ") = Count(source, " ") - 2

\* the offset o moved past the line splices that start there
RECURSIVE AfterSplices(_, _)
AfterSplices(t, o) ==
  IF o + 2 <= Len(t) /\ t[o + 1] = "\\" /\ t[o + 2] = "\n"
    THEN AfterSplices(t, o + 2) ELSE o

\* the offset of the first character of the logical line that follows the
\* one holding offset o; the length of t when that line is the last one
RECURSIVE NextLogicalLine(_, _)
NextLogicalLine(t, o) ==
  IF o >= Len(t) THEN Len(t)
  ELSE IF AfterSplices(t, o) # o THEN NextLogicalLine(t, AfterSplices(t, o))
  ELSE IF t[o + 1] = "\r" /\ o + 2 <= Len(t) /\ t[o + 2] = "\n"
    THEN AfterSplices(t, o + 2)
  ELSE IF isNewlineCharacter(t[o + 1]) THEN AfterSplices(t, o + 1)
  ELSE NextLogicalLine(t, o + 1)

\* the program is P, all of its output is read and is the text t, and n
\* diagnostics were reported; nothing is said of any other state
OutputsWith(P, t, n) ==
  (source = P /\ Finished) => (emitted = t /\ Len(errors) = n)

\* C8: a #define line rejected with a diagnostic (duplicated parameter,
\* missing ')', missing parameter name, unexpected character in the parameter
\* list, macro name that is no identifier) leaves the macro table and the
\* expansion cache unchanged and adds no section to the CodeBuffer; the
\* whole line is consumed without output, and a later use of the name is
\* output verbatim: `#define F(a, a) a` then `F(1, 2) A` outputs
\* `F(1, 2) A` with one diagnostic
C8_RejectedDefine ==
  /\ \A i \in 1..Len(pp.log) :
       (pp.log[i].directive = directiveDefine /\ pp.log[i].rejected) =>
         /\ pp.log[i].unchanged
         /\ pp.log[i].errors = 1
         /\ pp.log[i].end = NextLogicalLine(source, pp.log[i].start)
  /\ OutputsWith(P_DuplicatedParameter, T_F12A, 1)
  /\ OutputsWith(P_MissingParen, T_F1, 1)
  /\ OutputsWith(P_MissingParameter, T_F1, 1)
  /\ OutputsWith(P_UnexpectedCharacter, T_F1, 1)
  /\ OutputsWith(P_BadMacroName, T_F, 1)
  /\ OutputsWith(P_DefineNothing, T_F, 1)
  /\ (source = P_RejectedRedefinition /\ Finished) =>
       /\ WithoutSpaces(emitted) = <<"1", "1">>
       /\ Len(errors) = 1
       /\ sectionCount(pp) = 2
  /\ (source \in ParameterPrograms /\ pp.log[1].rejected) =>
       /\ pp.setOfMacroDefinitions = {}
       /\ pp.codeCache = {}
       /\ sectionCount(pp) = 1
       /\ Len(errors) = 1
       /\ Finished => emitted = UseOfF

\* the client has read F(1, 2) A after the rejected `#define F(a, a) a`
C8_Witness ==
  /\ source = P_DuplicatedParameter
  /\ Finished
  /\ Len(pp.log) = 1 /\ pp.log[1].rejected /\ pp.log[1].unchanged
  /\ emitted = T_F12A
  /\ reported = <<<<MsgDuplicated, <<"a">>>>>>

\* ---------------------------------------------------------------------------
\* C11: the characters returned by successive get() calls never hold two
\* adjacent spaces, also where one of them comes out of a macro expansion;
\* with #define EMPTY the input 'a EMPTY b' outputs 'a b'.
\* ---------------------------------------------------------------------------

C11_NoAdjacentSpaces ==
  /\ \A i \in 1..(Len(emitted) - 1) : emitted[i] # " " \/ emitted[i + 1] # " "
  /\ Outputs(P_EmptyBetween, T_a_b)

\* ---------------------------------------------------------------------------
\* C12: the rescan of an expansion reads on across the end of its section:
\* ID(DIV)(3, 4) outputs '((3) / (4))'; with #define X(a) a and
\* #define FOO X, FOO(3) outputs '3'; once the section is exhausted, reading
\* resumes right after the ')' that closed the invocation.
\* ---------------------------------------------------------------------------

C12_RescanAcrossSections ==
  /\ Outputs(P_IdDiv34, T_Div34)
  /\ Outputs(P_FooX3, T_3)
  /\ Outputs(P_FooX3Semi, T_3Semi)
  /\ Outputs(P_X1FooX3Semi, T_1_3Semi)

\* ---------------------------------------------------------------------------
\* C13: an argument list is split with a parenthesis depth counter that
\* starts at 0: a ',' at depth 0 ends the argument, a ')' at depth 0 ends the
\* list, '(' increments and ')' at depth > 0 decrements the depth; an empty
\* argument between delimiters is the empty string.
\* ---------------------------------------------------------------------------

\* the text t, which follows the '(' of an invocation, split by that rule:
\* the arguments, the text after the ')' that ends the list, and whether there
\* is such a ')'
RECURSIVE SplitArguments(_, _, _, _)
SplitArguments(t, depth, argument, arguments) ==
  IF t = <<>>
    THEN [arguments |-> Append(arguments, argument), rest |-> <<>>,
          closed |-> FALSE]
  ELSE IF depth = 0 /\ t[1] = ","
    THEN SplitArguments(Tail(t), 0, <<>>, Append(arguments, argument))
  ELSE IF depth = 0 /\ t[1] = ")"
    THEN [arguments |-> Append(arguments, argument), rest |-> Tail(t),
          closed |-> TRUE]
  ELSE SplitArguments(Tail(t),
                      IF t[1] = "(" THEN depth + 1
                      ELSE IF t[1] = ")" THEN depth - 1 ELSE depth,
                      Append(argument, t[1]), arguments)

\* what T of TInvocation makes of the arguments a
BodyOfT(a) ==
  <<"[">> \o a[1] \o <<"|">> \o a[2] \o <<"|">> \o a[3] \o <<"]">>

\* C13: ID((3,4)) outputs '(3,4)'; FOO of three parameters applied to
\* '((a), (b)), (), ()' gets exactly three arguments; T(,,) has three empty
\* arguments and ID() has one; and every list of ListPrograms that the rule
\* splits into three arguments is expanded with exactly these arguments,
\* followed by the text after the closing ')'
C13_ArgumentsSplitByDepth ==
  /\ OutputsWith(P_IdNested, T_Nested34, 0)
  /\ OutputsWith(P_NestedArguments, T_NestedArguments, 0)
  /\ OutputsWith(P_EmptyArguments, T_EmptyArguments, 0)
  /\ OutputsWith(P_IdEmpty, <<>>, 0)
  /\ (Finished /\ source \in ListPrograms) =>
       LET s == SplitArguments(Suffix(source, Len(TInvocation)), 0, <<>>, <<>>)
       IN  (s.closed /\ Len(s.arguments) = 3) =>
             /\ emitted = BodyOfT(s.arguments) \o s.rest
             /\ errors = <<>>

\* ---------------------------------------------------------------------------
\* C14: line splicing is invisible in the output.
\* ---------------------------------------------------------------------------

\* the text t without its line splices: backslash LF and backslash CR LF
RECURSIVE Unspliced(_)
Unspliced(t) ==
  IF t = <<>> THEN <<>>
  ELSE IF Len(t) >= 2 /\ t[1] = "\\" /\ t[2] = "\n"
    THEN Unspliced(Suffix(t, 2))
  ELSE IF Len(t) >= 3 /\ t[1] = "\\" /\ t[2] = "\r" /\ t[3] = "\n"
    THEN Unspliced(Suffix(t, 3))
  ELSE <<t[1]>> \o Unspliced(Tail(t))

\* C14: every backslash immediately followed by LF, or by CR LF, in the
\* source is skipped together with the newline, repeatedly and wherever it
\* occurs: at offset 0, inside an identifier, inside a #define line; the
\* input of the test outputs 'int a = 20 ', and every text of SpliceTexts
\* outputs what the text without its splices outputs
C14_SplicesInvisible ==
  /\ Outputs(P_BackslashReturn, T_IntA20)
  /\ Outputs(P_SpliceInDefine, T_12Semi)
  /\ Outputs(P_SpliceAtStart, T_ab)
  /\ Outputs(P_SpliceCRLF, T_ab)
  /\ (Finished /\ source \in SpliceTexts) =>
       WithoutLastSpace(emitted)
         = WithoutLastSpace(Read(Unspliced(source)).out)

\* ---------------------------------------------------------------------------
\* Properties of the lexer
\* ---------------------------------------------------------------------------

\* the first call of next() has returned
Called == pc = "lexer" /\ returned # <<>>

\* the 36 keywords, each with its value of the enumeration Keyword
ClaimedKeywords ==
  <<<<<<"_", "B", "o", "o", "l">>, "_Bool">>,
    <<<<"_", "C", "o", "m", "p", "l", "e", "x">>, "_Complex">>,
    <<<<"_", "I", "m", "a", "g", "i", "n", "a", "r", "y">>, "_Imaginary">>,
    <<<<"a", "u", "t", "o">>, "Auto">>,
    <<<<"b", "r", "e", "a", "k">>, "Break">>,
    <<<<"c", "a", "s", "e">>, "Case">>,
    <<<<"c", "h", "a", "r">>, "Char">>,
    <<<<"c", "o", "n", "s", "t">>, "Const">>,
    <<<<"c", "o", "n", "t", "i", "n", "u", "e">>, "Continue">>,
    <<<<"d", "e", "f", "a", "u", "l", "t">>, "Default">>,
    <<<<"d", "o">>, "Do">>,
    <<<<"d", "o", "u", "b", "l", "e">>, "Double">>,
    <<<<"e", "l", "s", "e">>, "Else">>,
    <<<<"e", "n", "u", "m">>, "Enum">>,
    <<<<"e", "x", "t", "e", "r", "n">>, "Extern">>,
    <<<<"f", "l", "o", "a", "t">>, "Float">>,
    <<<<"f", "o", "r">>, "For">>,
    <<<<"g", "o", "t", "o">>, "Goto">>,
    <<<<"i", "f">>, "If">>,
    <<<<"i", "n", "l", "i", "n", "e">>, "Inline">>,
    <<<<"i", "n", "t">>, "Int">>,
    <<<<"l", "o", "n", "g">>, "Long">>,
    <<<<"r", "e", "g", "i", "s", "t", "e", "r">>, "Register">>,
    <<<<"r", "e", "s", "t", "r", "i", "c", "t">>, "Restrict">>,
    <<<<"r", "e", "t", "u", "r", "n">>, "Return">>,
    <<<<"s", "i", "g", "n", "e", "d">>, "Signed">>,
    <<<<"s", "i", "z", "e", "o", "f">>, "Sizeof">>,
    <<<<"s", "t", "a", "t", "i", "c">>, "Static">>,
    <<<<"s", "t", "r", "u", "c", "t">>, "Struct">>,
    <<<<"s", "w", "i", "t", "c", "h">>, "Switch">>,
    <<<<"t", "y", "p", "e", "d", "e", "f">>, "Typedef">>,
    <<<<"u", "n", "i", "o", "n">>, "Union">>,
    <<<<"u", "n", "s", "i", "g", "n", "e", "d">>, "Unsigned">>,
    <<<<"v", "o", "i", "d">>, "Void">>,
    <<<<"v", "o", "l", "a", "t", "i", "l", "e">>, "Volatile">>,
    <<<<"w", "h", "i", "l", "e">>, "While">>>>

\* C15: the lexer returns Keyword for exactly the 36 words of
\* ClaimedKeywords, byte-exact and case-sensitive, each with its own value,
\* and Identifier with the same text for every other identifier; in both
\* cases it consumes exactly the bytes of the identifier
C15_Keywords ==
  (Called /\ lexer.input \in WordInputs) =>
    LET n == RunLength(lexer.input, IdentifierCharacters)
        w == SubSeq(lexer.input, 1, n)
        k == {i \in 1..Len(ClaimedKeywords) : ClaimedKeywords[i][1] = w}
    IN  n > 0 =>
          /\ returned[1].offset = n
          /\ returned[1].token
               = IF k = {} THEN Identifier(w)
                 ELSE Keyword(ClaimedKeywords[CHOOSE i \in k : TRUE][2])

\* the suffixes of an integer literal: at most one of u and U and at most
\* one of ll, LL, l and L, in either order
UnsignedMarkers == {<<"u">>, <<"U">>}

LongMarkers == {<<"l", "l">>, <<"L", "L">>, <<"l">>, <<"L">>}

IntegerSuffixes ==
  {<<>>} \cup UnsignedMarkers \cup LongMarkers
    \cup {u \o l : u \in UnsignedMarkers, l \in LongMarkers}
    \cup {l \o u : u \in UnsignedMarkers, l \in LongMarkers}

HexadecimalDigits ==
  Digits \cup {"a", "b", "c", "d", "e", "f", "A", "B", "C", "D", "E", "F"}

\* what follows the digits of the integer literal that starts the text t
SuffixOf(t) ==
  IF Len(t) >= 2 /\ t[1] = "0" /\ t[2] \in {"x", "X"}
    THEN SubSeq(t, 3 + RunLength(SubSeq(t, 3, Len(t)), HexadecimalDigits),
                Len(t))
    ELSE SubSeq(t, 1 + RunLength(t, Digits), Len(t))

\* C16: an integer literal followed by a suffix of IntegerSuffixes is
\* returned as a NumberLiteral with its full spelling; followed by any other
\* run of letters (uu, lL, lll, f, abc) it gives the invalid-suffix error
C16_IntegerSuffixes ==
  (Called /\ lexer.input \in IntegerInputs) =>
    IF SuffixOf(lexer.input) \in IntegerSuffixes
      THEN /\ returned[1].token = NumberLiteral(lexer.input)
           /\ returned[1].errors = 0
      ELSE /\ returned[1].token = nullopt
           /\ returned[1].errors = 1
           /\ lexer.listOfErrors[1].message = MsgInvalidSuffix

\* the messages of the recoverable errors of a number literal
NumberErrors == {MsgInvalidSuffix, MsgExponent, MsgHexFloat}

\* the number of diagnostics before the k-th call
ErrorsBefore(k) == IF k = 1 THEN 0 ELSE returned[k - 1].errors

\* the k-th call reported an error of a number literal
NumberErrorAt(k) ==
  /\ returned[k].errors > ErrorsBefore(k)
  /\ lexer.listOfErrors[ErrorsBefore(k) + 1].message \in NumberErrors

\* the offset of the first character at or after offset n that is no space
FirstByte(n) ==
  n + RunLength(SubSeq(lexer.input, n + 1, Len(lexer.input)), Whitespace)

\* C17: a call that reports an invalid suffix, an exponent without digit or
\* a hexadecimal float without exponent returns None and appends exactly one
\* diagnostic; the diagnostic's range goes from the literal's first byte to
\* the scanner's offset, and the scanner stands after the whole run of
\* letters and digits that ends the literal; "4f" gives None, the diagnostic
\* of the suffix "f" of the literal 4 with range (0,2), and offset 2
C17_NumberErrorRange ==
  (pc = "lexer" /\ lexer.input \in NumberInputs \cup IntegerInputs) =>
    /\ \A k \in 1..Len(returned) :
         NumberErrorAt(k) =>
           /\ returned[k].token = nullopt
           /\ returned[k].errors = ErrorsBefore(k) + 1
           /\ lexer.listOfErrors[ErrorsBefore(k) + 1].range
                = <<FirstByte(returned[k].start), returned[k].offset>>
           /\ \/ returned[k].offset = Len(lexer.input)
              \/ ~ isalnum(lexer.input[returned[k].offset + 1])
    /\ (returned # <<>> /\ lexer.input = <<"4", "f">>) =>
         /\ returned[1].token = nullopt
         /\ returned[1].offset = 2
         /\ returned[1].errors = 1
         /\ lexer.listOfErrors[1]
              = LexerError(<<0, 2>>, MsgInvalidSuffix, <<"f">>, <<"4">>,
                           lexer.listOfErrors[1].hint)

\* the literals of LiteralInputs and of the tests of string and character
\* literals
LiteralTexts ==
  LiteralInputs \cup {LT_Hello, LT_InvalidEscapes, LT_CharacterEscapes,
                      LT_InvalidPrefix, LT_MissingQuote,
                      LT_CharacterMissingQuote}

\* the position of the opening quote of a text of LiteralTexts: after the
\* spaces and the prefix
OpeningQuote(t) ==
  FirstByte(0)
    + RunLength(SubSeq(t, FirstByte(0) + 1, Len(t)), IdentifierCharacters)
    + 1

\* the prefix the literal of the text t is written with
WrittenPrefix(t) == SubSeq(t, FirstByte(0) + 1, OpeningQuote(t) - 1)

\* the position of the quote that closes a literal whose content starts at
\* position i of t, where a backslash takes the byte after it along; 0 when
\* a newline or the end of t comes first
RECURSIVE ClosingQuote(_, _, _)
ClosingQuote(t, i, quote) ==
  IF i > Len(t) THEN 0
  ELSE IF t[i] = "\n" THEN 0
  ELSE IF t[i] = quote THEN i
  ELSE IF t[i] = "\\" THEN ClosingQuote(t, i + 2, quote)
  ELSE ClosingQuote(t, i + 1, quote)

\* the literal that starts the input has no closing quote
Unterminated ==
  /\ lexer.input \in LiteralTexts
  /\ ClosingQuote(lexer.input, OpeningQuote(lexer.input) + 1,
                  lexer.input[OpeningQuote(lexer.input)]) = 0

StrayCharacters == {BACKTICK, "@", "$"}

\* the k-th call met a stray character: the first byte after the spaces
StrayAt(k) ==
  /\ lexer.input \in StrayInputs \cup {LT_Stray}
  /\ FirstByte(returned[k].start) < Len(lexer.input)
  /\ lexer.input[FirstByte(returned[k].start) + 1] \in StrayCharacters

\* C19: next() throws only on an unterminated string or character literal;
\* on a stray character it reports 'Stray "C" in program.', consumes the
\* character and returns None, and the caller can call next() again
C19_OnlyUnterminatedThrows ==
  pc = "lexer" =>
    \A k \in 1..Len(returned) :
      /\ returned[k].token = exception =>
           /\ returned[k].errors = ErrorsBefore(k) + 1
           /\ lexer.listOfErrors[returned[k].errors].message
                \in {MsgStringQuote, MsgCharacterQuote}
      /\ StrayAt(k) =>
           /\ returned[k].token = nullopt
           /\ returned[k].offset = FirstByte(returned[k].start) + 1
           /\ returned[k].errors = ErrorsBefore(k) + 1
           /\ lexer.listOfErrors[returned[k].errors].message = MsgStray
           /\ lexer.listOfErrors[returned[k].errors].a
                = <<lexer.input[returned[k].offset]>>

\* the literal that starts the input has the prefix none or L and a
\* closing quote
WellTerminated ==
  /\ lexer.input \in LiteralTexts
  /\ WrittenPrefix(lexer.input) \in {<<>>, <<"L">>}
  /\ ClosingQuote(lexer.input, OpeningQuote(lexer.input) + 1,
                  lexer.input[OpeningQuote(lexer.input)]) # 0

\* C20: the token of a well-terminated string or character literal with
\* the prefix none or L carries the bytes between the opening quote and the
\* closing quote, in order and undecoded (a backslash and the byte after it
\* are copied, and the byte after a backslash does not close the literal);
\* its prefix is L exactly when the literal is written with the prefix L
C20_ContentVerbatim ==
  (Called /\ WellTerminated) =>
    /\ returned[1].token.kind
         = IF lexer.input[OpeningQuote(lexer.input)] = "\""
             THEN "StringLiteral" ELSE "CharacterLiteral"
    /\ returned[1].token.str
         = SubSeq(lexer.input, OpeningQuote(lexer.input) + 1,
                  ClosingQuote(lexer.input, OpeningQuote(lexer.input) + 1,
                               lexer.input[OpeningQuote(lexer.input)]) - 1)
    /\ returned[1].token.prefix = "L" <=> WrittenPrefix(lexer.input) = <<"L">>
    /\ returned[1].token.prefix = "None" <=> WrittenPrefix(lexer.input) = <<>>
    /\ returned[1].errors = 0

C20_Witness ==
  /\ Called
  /\ WellTerminated
  /\ lexer.input = <<"L", "\"", "\\", "\"", "XC3", "XA9", "\"", " ", "a">>
  /\ returned[1].token
       = StringLiteral(<<"\\", "\"", "XC3", "XA9">>, "L")

\* the literal that starts the input is written with an identifier other
\* than L before its quote, and has a closing quote
InvalidlyPrefixed ==
  /\ lexer.input \in LiteralTexts \cup PrefixedLiterals
  /\ WrittenPrefix(lexer.input) \notin {<<>>, <<"L">>}
  /\ ClosingQuote(lexer.input, OpeningQuote(lexer.input) + 1,
                  lexer.input[OpeningQuote(lexer.input)]) # 0

\* C21: when an identifier other than L is immediately followed by a quote,
\* next() consumes the quoted body and its closing quote, appends exactly
\* one diagnostic (the identifier is not a valid prefix for a string, or a
\* character, literal; hint "Invalid prefix."; range from the first byte of
\* the prefix to the offset after the closing quote) and returns None
C21_InvalidPrefix ==
  (Called /\ InvalidlyPrefixed) =>
    /\ returned[1].token = nullopt
    /\ returned[1].offset
         = ClosingQuote(lexer.input, OpeningQuote(lexer.input) + 1,
                        lexer.input[OpeningQuote(lexer.input)])
    /\ returned[1].errors = 1
    /\ lexer.listOfErrors[1]
         = LexerError(<<FirstByte(0), returned[1].offset>>,
                      IF lexer.input[OpeningQuote(lexer.input)] = "\""
                        THEN MsgStringPrefix ELSE MsgCharacterPrefix,
                      WrittenPrefix(lexer.input), <<>>, "Invalid prefix.")

C21_Witness ==
  /\ Called
  /\ InvalidlyPrefixed
  /\ lexer.input = LT_InvalidPrefix
  /\ returned[1].token = nullopt
  /\ lexer.listOfErrors[1].range = <<6, 15>>
  /\ lexer.listOfErrors[1].a = <<"u", "8">>

\* the punctuators that the lexer is to recognise
ClaimedPunctuators ==
  {<<"<", "<", "=">>, <<">", ">", "=">>, <<".", ".", ".">>, <<"<", ":">>,
   <<":", ">">>, <<"<", "%">>, <<"%", ">">>, <<"-", ">">>, <<"+", "+">>,
   <<"-", "-">>, <<"<", "<">>, <<">", ">">>, <<"<", "=">>, <<">", "=">>,
   <<"=", "=">>, <<"!", "=">>, <<"&", "&">>, <<"|", "|">>, <<"*", "=">>,
   <<"/", "=">>, <<"%", "=">>, <<"+", "=">>, <<"-", "=">>, <<"&", "=">>,
   <<"^", "=">>, <<"|", "=">>, <<"[">>, <<"]">>, <<"(">>, <<")">>, <<"{">>,
   <<"}">>, <<".">>, <<"&">>, <<"*">>, <<"+">>, <<"-">>, <<"~">>, <<"!">>,
   <<"/">>, <<"%">>, <<"<">>, <<">">>, <<"^">>, <<"|">>, <<"?">>, <<":">>,
   <<";">>, <<"=">>, <<",">>}

\* the punctuators of ClaimedPunctuators that the input continues with at
\* offset n
PunctuatorsAt(n) ==
  {p \in ClaimedPunctuators : IsPrefix(p, Suffix(lexer.input, n))}

\* C22: when the input goes on with one or more punctuators of
\* ClaimedPunctuators, next() returns the longest of them and consumes
\* exactly its bytes ("<<=", "->", "..." and ">>=" are single tokens), and a
\* punctuator lexed on its own is returned as itself
C22_LongestPunctuator ==
  (pc = "lexer" /\ lexer.input \in PunctuatorInputs) =>
    \A k \in 1..Len(returned) :
      PunctuatorsAt(FirstByte(returned[k].start)) # {} =>
        \E p \in PunctuatorsAt(FirstByte(returned[k].start)) :
          /\ \A o \in PunctuatorsAt(FirstByte(returned[k].start)) :
               Len(o) <= Len(p)
          /\ returned[k].token = Punctuator(p)
          /\ returned[k].offset = FirstByte(returned[k].start) + Len(p)

\* C23: every call of next() either returns a token and appends no
\* diagnostic, or returns None and appends exactly one diagnostic, or throws
\* and appends exactly one diagnostic; the diagnostics reported before the
\* call stay in their places before the new one
C23_OneDiagnosticPerFailure ==
  [][pc = "lexer" =>
       /\ IsPrefix(lexer.listOfErrors, lexer'.listOfErrors)
       /\ Len(lexer'.listOfErrors)
            = Len(lexer.listOfErrors)
                + (IF Last(returned').token \in {nullopt, exception}
                     THEN 1 ELSE 0)]_vars

C23_Witness ==
  /\ pc = "lexer"
  /\ lexer.input = <<"4", "a", " ", "+">>
  /\ Len(returned) = 2
  /\ returned[1].token = nullopt
  /\ returned[1].errors = 1
  /\ returned[2].token = Punctuator(<<"+">>)
  /\ returned[2].errors = 1

\* the letters that end the text t
RECURSIVE TrailingLetters(_)
TrailingLetters(t) ==
  IF t # <<>> /\ Last(t) \in Letters
    THEN Append(TrailingLetters(Front(t)), Last(t)) ELSE <<>>

\* the suffixes of a floating literal: none or one of f, F, l and L
FloatSuffixes == {<<>>, <<"f">>, <<"F">>, <<"l">>, <<"L">>}

\* C24: a number literal with a decimal point is a floating literal with or
\* without fraction digits and exponent: followed by a suffix of
\* FloatSuffixes it is returned as a NumberLiteral with its full spelling
\* ("4.f", "4.0f", "100.33", "4.L"); followed by any other run of letters,
\* the integer suffixes included, it gives the invalid-suffix error ("4.u",
\* "4.0ul", "4.abc", "1.0fl")
C24_FloatSuffixes ==
  (Called /\ lexer.input \in FloatInputs) =>
    IF TrailingLetters(lexer.input) \in FloatSuffixes
      THEN /\ returned[1].token = NumberLiteral(lexer.input)
           /\ returned[1].errors = 0
      ELSE /\ returned[1].token = nullopt
           /\ returned[1].errors = 1
           /\ lexer.listOfErrors[1]
                = LexerError(<<0, Len(lexer.input)>>, MsgInvalidSuffix,
                             TrailingLetters(lexer.input),
                             SubSeq(lexer.input, 1,
                                    Len(lexer.input)
                                      - Len(TrailingLetters(lexer.input))),
                             "invalid suffix.")

\* ---------------------------------------------------------------------------
\* Properties of the preprocessor, continued
\* ---------------------------------------------------------------------------

\* the literal that ends a program of QuotedPrograms
QuotedPart(p) ==
  IF IsPrefix(DefineA, p) THEN Suffix(p, Len(DefineA)) ELSE p

IsSuffix(s, t) ==
  Len(s) <= Len(t) /\ SubSeq(t, Len(t) - Len(s) + 1, Len(t)) = s

\* C25: the bytes between the quotes of a string or character literal pass
\* through the preprocessor unchanged: no comment starts inside the
\* literal, its whitespace is not collapsed, its identifiers are not
\* expanded and a '#' inside it is no directive; the output of
\* "#define FOO 1" in quotes is the input itself, and so is that of "a//b"
C25_LiteralsPassThrough ==
  /\ Outputs(P_DirectiveInString, P_DirectiveInString)
  /\ Outputs(P_CommentInString, P_CommentInString)
  /\ (Finished /\ source \in QuotedPrograms) =>
       IsSuffix(QuotedPart(source), emitted)

\* the offset of the "/*" of the block comment of the text t that is not
\* closed before the end of t, scanning from position i; -1 when every
\* comment is closed
RECURSIVE UnclosedComment(_, _, _, _)
UnclosedComment(t, i, mode, opened) ==
  IF i > Len(t) THEN (IF mode = "block" THEN opened ELSE -1)
  ELSE IF mode = "block"
    THEN IF t[i] = "*" /\ i < Len(t) /\ t[i + 1] = "/"
           THEN UnclosedComment(t, i + 2, "code", -1)
           ELSE UnclosedComment(t, i + 1, "block", opened)
  ELSE IF mode = "line"
    THEN UnclosedComment(t, i + 1,
                         IF isNewlineCharacter(t[i]) THEN "code" ELSE "line",
                         -1)
  ELSE IF t[i] = "/" /\ i < Len(t) /\ t[i + 1] = "*"
    THEN UnclosedComment(t, i + 2, "block", i - 1)
  ELSE IF t[i] = "/" /\ i < Len(t) /\ t[i + 1] = "/"
    THEN UnclosedComment(t, i + 2, "line", -1)
  ELSE UnclosedComment(t, i + 1, "code", -1)

IsCommentError(e) == e.message = MsgUnterminatedComment

\* C26: a block comment that is not closed before the end of the input
\* makes the preprocessor report exactly one diagnostic, whose range is the
\* two bytes of the opening "/*", and get() returns EOF after it; without an
\* unterminated comment no such diagnostic is reported
C26_UnterminatedComment ==
  (Finished /\ source \in FreeTexts \cup {P_UnterminatedComment, P_Comments})
    => IF UnclosedComment(source, 1, "code", -1) = -1
         THEN SelectSeq(errors, IsCommentError) = <<>>
         ELSE /\ Len(SelectSeq(errors, IsCommentError)) = 1
              /\ SelectSeq(errors, IsCommentError)[1].range
                   = <<UnclosedComment(source, 1, "code", -1),
                       UnclosedComment(source, 1, "code", -1) + 2>>

\* the line of the '#' at offset o holds only spaces and tabs after it
OnlyBlanksAfter(t, o) ==
  LET n == o + 1 + RunLength(Suffix(t, o + 1), {" ", "\t"})
  IN  /\ o < Len(t) /\ t[o + 1] = "#"
      /\ (n = Len(t) \/ isNewlineCharacter(t[n + 1]))

\* what the lines b of Before, and a of After read after b, put out
OutputOf(b, a) ==
  (IF b = <<"a", "\n">> THEN <<"a">> ELSE <<>>)
    \o (IF a # <<>> /\ Last(a) = "b" THEN <<"b">>
        ELSE IF a # <<>> /\ Last(a) = "X" /\ (b = DefineX1 \/ Len(a) > 2)
          THEN <<"1">>
        ELSE IF a # <<>> /\ Last(a) = "X" THEN <<"X">>
        ELSE <<>>)

\* C27: a directive line that consists of '#' followed only by spaces and
\* tabs is a no-op: it produces no output character, reports no diagnostic
\* and changes neither the macro table nor the CodeBuffer, and processing
\* continues with the first character of the next line: '#       ' then
\* 'int a = 10;' outputs 'int a = 10;' with no diagnostic
C27_EmptyDirective ==
  /\ \A i \in 1..Len(pp.log) :
       OnlyBlanksAfter(source, pp.log[i].start) =>
         /\ pp.log[i].unchanged
         /\ pp.log[i].errors = 0
         /\ pp.log[i].end = NextLogicalLine(source, pp.log[i].start)
  /\ OutputsWith(P_EmptyDirective, T_IntA10, 0)
  /\ \A b \in Before, a \in After,
        sp \in SeqsUpTo({" ", "\t"}, MaxBlankLen) :
       (Finished /\ source = b \o <<"#">> \o sp \o a) =>
         /\ WithoutSpaces(emitted) = OutputOf(b, a)
         /\ errors = <<>>

\* the run r of digits has a digit that is no octal digit
HasNonOctalDigit(r) == \E i \in 1..Len(r) : r[i] \in {"8", "9"}

\* C28: a literal in decimal base whose first character is 0, that has no '.'
\* and no exponent introducer after its digits, and whose digit run contains
\* 8 or 9 makes next() return None with exactly one diagnostic "Invalid octal
\* number." (hint "Invalid octal number.") whose range covers the digit run;
\* the same digit run followed by '.' or by an exponent is a valid floating
\* literal, and a digit run of only 0-7 after the leading 0 is a valid
\* integer
C28_InvalidOctal ==
  \A s \in OctalLeads, r \in OctalRuns :
    /\ \A t \in IntegerTails :
         (Called /\ lexer.input = s \o r \o t) =>
           IF HasNonOctalDigit(r)
             THEN /\ returned[1].token = nullopt
                  /\ returned[1].offset = Len(s) + Len(r)
                  /\ returned[1].errors = 1
                  /\ lexer.listOfErrors[1]
                       = LexerError(<<Len(s), Len(s) + Len(r)>>,
                                    "Invalid octal number.", <<>>, <<>>,
                                    "Invalid octal number.")
             ELSE (t \in {<<>>, <<" ">>, <<";">>, <<"u", "l">>}) =>
                    /\ returned[1].token
                         = NumberLiteral(r \o SelectSeq(t, LAMBDA c :
                                                          c \in Letters))
                    /\ returned[1].errors = 0
    /\ \A t \in FloatTails :
         (Called /\ lexer.input = s \o r \o t) =>
           /\ returned[1].token = NumberLiteral(r \o t)
           /\ returned[1].offset = Len(lexer.input)
           /\ returned[1].errors = 0

C28_Witness ==
  /\ Called
  /\ lexer.input = <<"0", "8", "9", "7">>
  /\ Len(returned) = 2
  /\ returned[1].token = nullopt
  /\ returned[2].token = EOI
  /\ Len(lexer.listOfErrors) = 1
  /\ lexer.listOfErrors[1].range = <<0, 4>>
  /\ lexer.listOfErrors[1].message = MsgOctal

\* the range lies in a buffer of n bytes
WithinBuffer(range, n) ==
  /\ 0 <= range[1]
  /\ range[1] <= range[2]
  /\ range[2] <= n

\* C29: every diagnostic reported by the preprocessor or the lexer has a
\* range (start, end) with 0 <= start <= end <= length of the CodeBuffer,
\* also for the errors found at the end of a line or of the input: a missing
\* ')' or a missing parameter name in a #define that is the last line, an
\* unterminated argument list at the end of the input
C29_RangeWithinBuffer ==
  /\ \A i \in 1..Len(errors) : WithinBuffer(errors[i].range, Len(pp.buffer))
  /\ pc = "lexer" =>
       \A i \in 1..Len(lexer.listOfErrors) :
         WithinBuffer(lexer.listOfErrors[i].range, Len(lexer.input))

\* C30: for every PPCharacter returned by get() that is neither EOF nor a
\* collapsed space, its offset is the CodeBuffer offset of the first byte of
\* that character: decoding the buffer at that offset yields the character's
\* codepoint, whether the character comes from section 0, from an expansion
\* section at any nesting depth, or from the replay of an unexpanded
\* identifier; the character looked at is the one peek() took from get()
C30_OffsetOfCharacter ==
  (lookaheadBuffer # <<>> /\ lookaheadBuffer[1].ch # " ") =>
    decodeAt(pp, lookaheadBuffer[1].offset) = lookaheadBuffer[1].ch

\* the key of the invocation of the macro F with the one argument arg
KeyOfF(arg) == createFunctionLikeMacroCacheKey(<<"F">>, <<arg>>)

\* C31: the expansion cache is keyed by the invocation key: after a
\* function-like invocation name(args) has been expanded, the cache maps the
\* key built from the macro name and the expanded argument texts to its
\* section, so a later invocation with the same key returns the same
\* SectionID and adds no section, while an invocation of the same macro with
\* different argument texts gets its own section and never the cached text
\* of another key: every section but section 0 is the section of one key,
\* and F(1)+F(1)+F(2) leaves the two sections of F(1) and of F(2)
C31_CacheKeyedByInvocation ==
  /\ \A id \in 1..(sectionCount(pp) - 1) :
       \E e \in pp.codeCache : e.id = id
  /\ \A e \in pp.codeCache :
       isDefined(pp, e.key) => findMacro(pp, e.key).type = OBJECT_LIKE_MACRO
  /\ (Finished /\ source = P_RepeatedInvocation) =>
       /\ emitted = T_1p1p2
       /\ sectionCount(pp) = 3
       /\ pp.codeCache = {[key |-> KeyOfF(<<"1">>), id |-> 1],
                          [key |-> KeyOfF(<<"2">>), id |-> 2]}
       /\ sectionText(pp, 1) = <<"1">>
       /\ sectionText(pp, 2) = <<"2">>

\* the section the scanner of w reads, and the one that the i-th entry of
\* the stack was entered from
ReadSection(w) == PPScanner_currentSectionID(w)

EnteredFrom(w, i) == IF i = 1 THEN 0 ELSE w.stackOfSectionID[i - 1]

\* the stack is empty if and only if section 0 is read; each stored offset
\* lies in the section that was read when it was saved
StackDiscipline ==
  ~crashed(pp) =>
    /\ Len(pp.stackOfSectionID) = Len(pp.stackOfStoredOffsets)
    /\ (pp.stackOfSectionID = <<>>) = (ReadSection(pp) = 0)
    /\ pp.offset >= section(pp, ReadSection(pp))
    /\ pp.offset <= sectionEnd(pp, ReadSection(pp))
    /\ (ReadSection(pp) # 0 => pp.offset < sectionEnd(pp, ReadSection(pp)))
    /\ \A i \in 1..Len(pp.stackOfStoredOffsets) :
         /\ pp.stackOfStoredOffsets[i] >= section(pp, EnteredFrom(pp, i))
         /\ pp.stackOfStoredOffsets[i] <= sectionEnd(pp, EnteredFrom(pp, i))

\* a call that leaves sections leaves the last ones entered and goes on
\* at or after the offset stored for the first of them
LastInFirstOut ==
  (/\ ~crashed(pp')
   /\ Len(pp'.stackOfSectionID) < Len(pp.stackOfSectionID)
   /\ IsPrefix(pp'.stackOfSectionID, pp.stackOfSectionID)) =>
    /\ IsPrefix(pp'.stackOfStoredOffsets, pp.stackOfStoredOffsets)
    /\ pp'.offset
         >= pp.stackOfStoredOffsets[Len(pp'.stackOfStoredOffsets) + 1]
    /\ pp'.offset
         <= sectionEnd(pp, EnteredFrom(pp, Len(pp'.stackOfSectionID) + 1))

\* section 0 is exhausted, the stack is empty, nothing is kept for replay
NothingLeft ==
  /\ PPScanner_reachedEndOfInput(pp)
  /\ ~pp.identScanner.active
  /\ lookaheadBuffer = <<>>

\* what reachedEndOfInput() returns when called now: peek() == EOF
reachedEndOfInput ==
  IF lookaheadBuffer # <<>> THEN FALSE ELSE callGet.ch = EOFCH

\* once the end was reached every call returns EOF and the stack stays empty
EndIsFinal ==
  pc = "eof" =>
    /\ pc' = "eof"
    /\ emitted' = emitted
    /\ lookaheadBuffer' = <<>>
    /\ pp'.stackOfSectionID = <<>>

SectionsPartition ==
  /\ pp.sectionOffsets # <<>>
  /\ pp.sectionOffsets[1] = 0
  /\ \A i \in 1..(Len(pp.sectionOffsets) - 1) :
       pp.sectionOffsets[i] < pp.sectionOffsets[i + 1]
  /\ \A id \in 0..(sectionCount(pp) - 1) :
       /\ section(pp, id) <= sectionEnd(pp, id)
       /\ sectionEnd(pp, id)
            = IF id = sectionCount(pp) - 1 THEN Len(pp.buffer)
              ELSE section(pp, id + 1)
       /\ sectionSize(pp, id) = Len(sectionText(pp, id))

\* the calls of addSection of one step leave the sections there were as
\* they are, and number the new ones from the previous sectionCount on
SectionsKept ==
  /\ IsPrefix(pp.sectionOffsets, pp'.sectionOffsets)
  /\ IsPrefix(pp.buffer, pp'.buffer)
  /\ \A id \in 0..(sectionCount(pp) - 1) :
       sectionText(pp', id) = sectionText(pp, id)
  /\ \A id \in sectionCount(pp)..(sectionCount(pp') - 1) :
       section(pp', id) >= Len(pp.buffer)

\* C33: after any sequence of addSection calls, including calls with empty
\* content as produced by an expansion to the empty string, the CodeBuffer's
\* section offsets start at 0 and are strictly increasing, the sections
\* partition [0, buffer length) with sectionEnd(i) = section(i+1) for every
\* i but the last and sectionEnd(last) = buffer length, addSection returns
\* the previous sectionCount as the new id, and the start, size and bytes of
\* every earlier section are unchanged
C33_SectionsPartition ==
  /\ [](~crashed(pp) => SectionsPartition)
  /\ [][~crashed(pp') => SectionsKept]_vars

\* C34: for an identifier that names a function-like macro, the probe for
\* '(' skips any whitespace and comments after the name: if a '(' follows
\* them the invocation is expanded ('ID (3)' and 'ID /* c */ (3)' output
\* '3'), and if the next character after them is not '(' the name stands as
\* an ordinary identifier, is emitted verbatim with no diagnostic, and the
\* skipped whitespace is still emitted as one space ('U LP a RP' outputs
\* 'U ( a )')
C34_ProbeSkipsWhitespace ==
  /\ OutputsWith(P_ProbeSpace, T_3, 0)
  /\ OutputsWith(P_ProbeComment, T_3, 0)
  /\ OutputsWith(P_ULPaRP, T_ULPaRP, 0)
  /\ \A g \in Gaps, a \in AfterGap :
       OutputsWith(NameOfID \o g \o a,
                   IF a = <<"(", "3", ")">> THEN <<"3">>
                   ELSE IF a = <<>> THEN <<"I", "D", " ">>
                   ELSE <<"I", "D", " ">> \o a,
                   0)

\* C35: each parsed macro argument has its leading and trailing whitespace
\* removed and every interior run of whitespace and comments replaced by
\* exactly one space, and no other character is dropped or inserted:
\* 'DIV( 4 , 3 )' yields the two arguments '4' and '3' exactly as 'DIV(4,3)'
\* does, and 'DIV(1 + 2+ !foo.bar, 3)' outputs '((1 + 2+ !foo.bar) / (3))'
C35_ArgumentWhitespace ==
  /\ OutputsWith(P_DivPlain, T_Div43, 0)
  /\ OutputsWith(P_DivSpaced, T_Div43, 0)
  /\ OutputsWith(P_DivTokens, T_DivTokens, 0)
  /\ \A g1, g2, g3 \in ArgumentGaps :
       OutputsWith(
         IdInvocation \o g1 \o <<"a">> \o g2 \o <<"b">> \o g3 \o <<")">>,
         IF g2 = <<>> THEN <<"a", "b">> ELSE <<"a", " ", "b">>, 0)

\* the macro F as the program defines it, <<>> when it defines none
DefinitionOfF ==
  IF isDefined(pp, <<"F">>) THEN <<findMacro(pp, <<"F">>)>> ELSE <<>>

\* C36: in the parameter list of a function-like #define, whitespace before
\* and after each comma and before the closing ')' is ignored:
\* '#define F( a , b , c ) body' is accepted without a diagnostic and defines
\* the same macro (parameters a, b, c) as '#define F(a,b,c) body'; '()'
\* defines a macro with zero parameters
C36_ParameterListWhitespace ==
  /\ source \in {P_ParametersSpaced, P_ParametersPlain} =>
       /\ errors = <<>>
       /\ DefinitionOfF
            = <<MacroDefinition(<<"F">>, << <<"a">>, <<"b">>, <<"c">> >>,
                                <<"[", "a", "|", "b", "|", "c", "]">>,
                                FUNCTION_LIKE_MACRO)>>
       /\ Finished => emitted = T_123Bars
  /\ source = P_NoParameters =>
       /\ errors = <<>>
       /\ DefinitionOfF
            = <<MacroDefinition(<<"F">>, <<>>, <<"x">>, FUNCTION_LIKE_MACRO)>>
       /\ Finished => emitted = <<"x">>
  /\ OutputsWith(P_ParametersSpaceBeforeParen, T_1m2, 0)
  /\ OutputsWith(P_ParametersSpaceAfterComma, T_1m2, 0)

\* the text has a LF, CR, VT or FF that no backslash escapes
RECURSIVE HasLineBreak(_)
HasLineBreak(t) ==
  IF t = <<>> THEN FALSE
  ELSE IF t[1] = "\\" THEN HasLineBreak(SubSeq(t, 3, Len(t)))
  ELSE t[1] \in LineBreaks \/ HasLineBreak(Tail(t))

\* C37: the body scan of a string or character literal stops with the
\* missing-ending-quote error at the first unescaped LF, CR, VT or FF, also
\* when a matching quote appears later on: "hello<VT>" and "hello<CR>" raise
\* the fatal error, and no literal is returned whose bytes contain a raw LF,
\* CR, VT or FF
C37_LiteralStopsAtLineBreak ==
  pc = "lexer" =>
    /\ (returned # <<>> /\ lexer.input \in BrokenLiterals) =>
         /\ returned[1].token = exception
         /\ returned[1].errors = 1
         /\ lexer.listOfErrors[1].message
              \in {MsgStringQuote, MsgCharacterQuote}
    /\ \A k \in 1..Len(returned) :
         returned[k].token.kind \in {"StringLiteral", "CharacterLiteral"} =>
           ~HasLineBreak(returned[k].token.str)

\* FOO_BAR
FOO_BAR == <<"F", "O", "O", "_", "B", "A", "R">>

\* C38: the preprocessor reads identifiers by the form
\* [_A-Za-z][_A-Za-z0-9]* with underscores included in the continuation, and
\* tries to expand only the whole maximal identifier: with FOO defined,
\* FOO_BAR, FOOBAR and _FOO are output verbatim; '#define FOO_BAR 1' defines
\* a macro named FOO_BAR with body '1'; and a body identifier is replaced as
\* a parameter only when the whole identifier equals the parameter name
C38_WholeIdentifier ==
  /\ OutputsWith(P_UnderscoreNames, T_UnderscoreNames, 0)
  /\ source = P_DefineUnderscore =>
       /\ errors = <<>>
       /\ pp.setOfMacroDefinitions
            = {MacroDefinition(FOO_BAR, <<>>, <<"1">>, OBJECT_LIKE_MACRO)}
       /\ Finished => emitted = <<"1">>
  /\ OutputsWith(P_ParameterWhole, T_ParameterWhole, 0)

\* peek() of the base scanner returns what its next get() returns, and both
\* return EOF at the end of the input
BaseScannerAgrees ==
  /\ PPScanner_peek(pp) = PPScanner_get(pp).ch
  /\ PPScanner_reachedEndOfInput(pp) =>
       /\ PPScanner_peek(pp) = EOFCH
       /\ PPScanner_get(pp).ch = EOFCH
       /\ PPScanner_get(pp).w = pp

\* the same for a directive scanner over the base scanner, whose input also
\* ends at a raw newline, which its get() leaves unread
DirectiveScannerAgrees ==
  /\ PPDirectiveScanner_peek(pp) = PPDirectiveScanner_get(pp).ch
  /\ PPDirectiveScanner_reachedEndOfInput(pp) =>
       /\ PPDirectiveScanner_peek(pp) = EOFCH
       /\ PPDirectiveScanner_get(pp).ch = EOFCH
       /\ PPDirectiveScanner_get(pp).w = pp
  /\ (~PPScanner_reachedEndOfInput(pp)
      /\ isNewlineCharacter(decodeAt(pp, pp.offset))) =>
       PPDirectiveScanner_reachedEndOfInput(pp)

\* C39: for the base scanner and the directive scanner in every reachable
\* state, peek() returns the codepoint that the next get() will return and
\* does not change offset(); when reachedEndOfInput() is true (for the
\* directive scanner also at a raw newline) both peek() and get() return
\* EOF, and a directive scanner never consumes the raw newline that ends its
\* line
C39_PeekAgreesWithGet ==
  ~crashed(pp) => (BaseScannerAgrees /\ DirectiveScannerAgrees)

\* the text s without an exponent at its start: the introducer (one of
\* intro), an optional sign and at least one decimal digit; <<"?">> when s
\* does not start with an exponent
AfterExponent(s, intro) ==
  IF s = <<>> \/ s[1] \notin intro THEN <<"?">>
  ELSE LET r == IF Len(s) >= 2 /\ s[2] \in {"+", "-"}
                  THEN SubSeq(s, 3, Len(s)) ELSE Tail(s)
       IN  IF RunLength(r, Digits) = 0 THEN <<"?">>
           ELSE SubSeq(r, RunLength(r, Digits) + 1, Len(r))

\* the text d (its digits being those of ds, its exponent introduced by one
\* of intro) is an integer part, an optional fraction, an exponent (needed
\* when exponentNeeded) and a suffix of the kind its form takes
IsNumberBody(d, ds, intro, exponentNeeded) ==
  LET i == RunLength(d, ds)
      r == SubSeq(d, i + 1, Len(d))
      f == IF r # <<>> /\ r[1] = "." THEN RunLength(Tail(r), ds) ELSE 0
      e == IF r # <<>> /\ r[1] = "." THEN SubSeq(r, f + 2, Len(r)) ELSE r
  IN  IF r # <<>> /\ r[1] = "."
        THEN /\ i + f >= 1
             /\ IF e # <<>> /\ e[1] \in intro
                  THEN AfterExponent(e, intro) \in FloatSuffixes
                  ELSE ~exponentNeeded /\ e \in FloatSuffixes
      ELSE IF r # <<>> /\ r[1] \in intro
        THEN i >= 1 /\ AfterExponent(r, intro) \in FloatSuffixes
      ELSE i >= 1 /\ r \in IntegerSuffixes

\* the text t has one of the forms of an integer, a decimal float or a
\* hexadecimal float
IsNumberForm(t) ==
  IF Len(t) >= 2 /\ t[1] = "0" /\ t[2] \in {"x", "X"}
    THEN IsNumberBody(SubSeq(t, 3, Len(t)), HexadecimalDigits, {"p", "P"},
                      TRUE)
  ELSE /\ IsNumberBody(t, Digits, {"e", "E"}, FALSE)
       /\ (/\ t # <<>> /\ t[1] = "0"
           /\ RunLength(t, Digits) = Len(t) - Len(SuffixOf(t))
           /\ SuffixOf(t) \in IntegerSuffixes) =>
            \A k \in 1..RunLength(t, Digits) : isOctalDigit(t[k])

\* a hexadecimal prefix with no hexadecimal digit after it, nor after a '.'
\* that follows it
HexWithoutDigit(t) ==
  /\ Len(t) >= 2 /\ t[1] = "0" /\ t[2] \in {"x", "X"}
  /\ (Len(t) = 2 \/ t[3] \notin HexadecimalDigits \cup {"."})
     \/ (Len(t) >= 3 /\ t[3] = "."
         /\ (Len(t) = 3 \/ t[4] \notin HexadecimalDigits))

\* C40: every NumberLiteral returned by next() has a spelling equal to the
\* bytes consumed for it and matching one of the literal forms of section 6;
\* in particular a hexadecimal prefix with no hexadecimal digit in the
\* integer part and none in the fraction part ('0x', '0X', '0x.p1') is never
\* returned as a NumberLiteral but reported as an error with None
C40_NumberLiteralForms ==
  pc = "lexer" =>
    /\ \A k \in 1..Len(returned) :
         returned[k].token.kind = "NumberLiteral" =>
           /\ returned[k].token.str
                = SubSeq(lexer.input, FirstByte(returned[k].start) + 1,
                         returned[k].offset)
           /\ IsNumberForm(returned[k].token.str)
    /\ (returned # <<>> /\ HexWithoutDigit(lexer.input)) =>
         /\ returned[1].token = nullopt
         /\ returned[1].errors = 1

====
